---- MODULE Spec2Model ----
(***************************************************************************)
(* The Gamma MCP server: the tool-invocation handler, the submission call  *)
(* generateGamma and the status-polling loop getGenerationStatus, run      *)
(* against a remote generation service and a wall clock.                   *)
(*                                                                         *)
(* Time is in milliseconds, as Date.now() gives it, and advances in whole   *)
(* seconds (action Tick).  The code uses the clock only in the difference  *)
(* Date.now() - startTime, so each invocation carries that difference      *)
(* (elapsed) instead of the two absolute readings, and the time since its  *)
(* pending fetch was issued or its pending timer was set (waited).  A      *)
(* fetch answers between 0 and MaxRtt seconds after it was issued; a       *)
(* setTimeout(resolve, pollInterval) resolves between pollInterval and     *)
(* pollInterval + MaxLate seconds after it was set (a timer never fires    *)
(* early, it may fire late).                                               *)
(***************************************************************************)
EXTENDS Integers, Sequences, FiniteSets, TLC

(***************************************************************************)
(* Bounds of the model.                                                    *)
(***************************************************************************)
MaxRtt == 1          \* longest round trip of a request, in seconds
MaxLate == 1         \* longest lateness of a timer, in seconds
MaxWaitArg == 15     \* largest explicit maxWaitSeconds argument

(***************************************************************************)
(* Program constants.                                                      *)
(***************************************************************************)
MsPerSecond == 1000
pollInterval == 5000
DefaultMaxWaitSeconds == 300
DefaultPollUntilComplete == TRUE
ParamPollUntilComplete == FALSE
ParamMaxWaitSeconds == 300
GAMMA_API_BASE == "https://public-api.gamma.app/v0.2"

InvalidRequest == "InvalidRequest"
InternalError == "InternalError"
MethodNotFound == "MethodNotFound"

\* Slots for the invocations in progress.
Calls == {1, 2}

\* A JavaScript value that may be undefined: <<>> is undefined, <<v>> is v.
Undefined == <<>>
Some(v) == <<v>>

(***************************************************************************)
(* The remote service.  One job, "gen_123", which is absent until a        *)
(* submission creates it, or in one of the service's states.  A payload    *)
(* without a status field reads as status "undefined" in the client.       *)
(***************************************************************************)
TerminalStatuses == {"completed", "failed"}
RunningStatuses == {"pending", "running", "undefined"}
JobStates == {"absent"} \cup RunningStatuses \cup TerminalStatuses

\* The body text the service sends for a job in state st.
JobBody(st) ==
    CASE st = "pending"   -> "{\"generationId\":\"gen_123\",\"status\":\"pending\"}"
      [] st = "running"   -> "{\"generationId\":\"gen_123\",\"status\":\"running\"}"
      [] st = "undefined" -> "{\"generationId\":\"gen_123\"}"
      [] st = "completed" -> "{\"generationId\":\"gen_123\",\"status\":\"completed\",\"gammaUrl\":\"https://gamma.app/docs/abc\"}"
      [] st = "failed"    -> "{\"generationId\":\"gen_123\",\"status\":\"failed\"}"
      [] OTHER            -> "{\"error\":\"not found\"}"

RateLimitedBody == "{\"error\":\"rate limited\"}"

\* response.json(): the value a body text denotes.
JSONparse(text) ==
    CASE text = JobBody("pending") ->
           [generationId |-> "gen_123", status |-> "pending", gammaUrl |-> "undefined"]
      [] text = JobBody("running") ->
           [generationId |-> "gen_123", status |-> "running", gammaUrl |-> "undefined"]
      [] text = JobBody("undefined") ->
           [generationId |-> "gen_123", status |-> "undefined", gammaUrl |-> "undefined"]
      [] text = JobBody("completed") ->
           [generationId |-> "gen_123", status |-> "completed",
            gammaUrl |-> "https://gamma.app/docs/abc"]
      [] text = JobBody("failed") ->
           [generationId |-> "gen_123", status |-> "failed", gammaUrl |-> "undefined"]
      [] OTHER ->
           [generationId |-> "undefined", status |-> "undefined", gammaUrl |-> "undefined"]

\* JSON.stringify(value) and JSON.stringify(value, null, 2).
JSONstringify(value, indent) == [json |-> value, indent |-> indent]

OkResponse(text) == [ok |-> TRUE, status |-> 200, text |-> text]
ErrorResponse(code, text) == [ok |-> FALSE, status |-> code, text |-> text]
NoResponse == [ok |-> FALSE, status |-> 0, text |-> ""]

\* What the service may answer to GET /generations/gen_123 when the job is st.
StatusResponses(st) ==
    {ErrorResponse(429, RateLimitedBody)} \cup
    (IF st = "absent" THEN {ErrorResponse(404, JobBody("absent"))}
                      ELSE {OkResponse(JobBody(st))})

(***************************************************************************)
(* Errors and results of the MCP layer.                                    *)
(***************************************************************************)
McpError(code, message) == [class |-> "McpError", code |-> code, message |-> message]
\* What fetch rejects with when the request itself fails.
FetchFailed == [class |-> "TypeError", code |-> "", message |-> <<"fetch failed">>]

NoOutcome == [kind |-> "none"]
NoResult == [generationId |-> "", status |-> "", gammaUrl |-> ""]
NoRequest == [method |-> "", url |-> <<>>, key |-> Undefined, body |-> Undefined]
NoArguments ==
    [inputText |-> Undefined, numCards |-> Undefined, generationId |-> Undefined,
     pollUntilComplete |-> Undefined, maxWaitSeconds |-> Undefined]

\* Truthy, taking the empty string for a value.
TruthyOfEmptyString(v) == v # Undefined

\* JavaScript truthiness of an optional string.
Truthy(v) == v # Undefined /\ v[1] # ""

\* A destructuring or parameter default: it applies to undefined only.
OrDefault(v, d) == IF v = Undefined THEN d ELSE v[1]

(***************************************************************************)
(* Arguments the client may send.                                          *)
(***************************************************************************)
\* The maxWaitSeconds of the polls that run concurrently.
ConcurrentWait == 7
WaitArgs == {-1, 0, 7, MaxWaitArg}

GenerateArguments ==
    {[NoArguments EXCEPT !.inputText = Some("Quarterly sales overview"), !.numCards = n] :
        n \in {Undefined, Some(10)}}
ExplicitStatusArguments ==
    {[NoArguments EXCEPT !.generationId = Some("gen_123"),
                         !.pollUntilComplete = Some(p), !.maxWaitSeconds = Some(w)] :
        p \in BOOLEAN, w \in WaitArgs}
DefaultedStatusArguments ==
    {[NoArguments EXCEPT !.generationId = Some("gen_123"),
                         !.pollUntilComplete = p, !.maxWaitSeconds = w] :
        p \in {Undefined, Some(TRUE)}, w \in {Undefined, Some(DefaultMaxWaitSeconds)}}

(***************************************************************************)
(* The registry validator (validate-server-json.cjs) and the file it       *)
(* reads.  A JSON value carries its JavaScript type in the field js; a     *)
(* string is the sequence of its characters, so that the validator's       *)
(* regular expressions, trim and length are computed on the characters.    *)
(***************************************************************************)
Absent == [js |-> "undefined"]
Null == [js |-> "null"]
Str(chars) == [js |-> "string", chars |-> chars]
Num(n) == [js |-> "number", value |-> n]
Arr(items) == [js |-> "array", items |-> items]

Repeat(ch, n) == [i \in 1..n |-> ch]
StartsWith(s, prefix) ==
    Len(s) >= Len(prefix) /\ SubSeq(s, 1, Len(prefix)) = prefix

\* JavaScript truthiness of a JSON value.
Falsy(v) ==
    CASE v.js = "undefined" -> TRUE
      [] v.js = "null"      -> TRUE
      [] v.js = "string"    -> v.chars = <<>>
      [] v.js = "number"    -> v.value = 0
      [] OTHER              -> FALSE

\* v.length > max, where v.length is undefined unless v is a string or an
\* array, and undefined > max is false.
LongerThan(v, max) ==
    CASE v.js = "string" -> Len(v.chars) > max
      [] v.js = "array"  -> Len(v.items) > max
      [] OTHER           -> FALSE

\* String.prototype.trim on the characters of a string.
WhiteSpace == {" ", "\t", "\n"}
trim(s) ==
    LET inked == {i \in 1..Len(s) : s[i] \notin WhiteSpace}
    IN  IF inked = {} THEN <<>>
        ELSE SubSeq(s, CHOOSE i \in inked : \A j \in inked : i <= j,
                       CHOOSE i \in inked : \A j \in inked : i >= j)

Digit == {"0", "1", "2", "3", "4", "5", "6", "7", "8", "9"}
Letter == {"a", "b", "c", "d", "e", "f", "g", "h", "i", "j", "k", "l", "m",
           "n", "o", "p", "q", "r", "s", "t", "u", "v", "w", "x", "y", "z"}

\* s.match(/^\d+\.\d+\.\d+/): digits, a dot, digits, a dot and a digit at
\* the start of s; what follows is not looked at.
MatchesVersion(s) ==
    \E i, j \in 1..Len(s) :
        /\ 1 < i /\ i + 1 < j /\ j < Len(s)
        /\ s[i] = "." /\ s[j] = "."
        /\ \A k \in 1..(i - 1) : s[k] \in Digit
        /\ \A k \in (i + 1)..(j - 1) : s[k] \in Digit
        /\ s[j + 1] \in Digit

IoGithubDot == <<"i", "o", ".", "g", "i", "t", "h", "u", "b", ".">>
ComDot == <<"c", "o", "m", ".">>

\* s.match(/^(io\.github\.[^\/]+|com\.[^\/]+)\/[^\/]+$/): the whole of s is
\* "io.github." or "com.", one or more characters other than a slash, one
\* slash, and one or more characters other than a slash.
MatchesNamespace(s) ==
    \E k \in 1..Len(s) :
        /\ s[k] = "/"
        /\ \A i \in 1..Len(s) : i # k => s[i] # "/"
        /\ k < Len(s)
        /\ LET owner == SubSeq(s, 1, k - 1)
           IN  \/ StartsWith(owner, IoGithubDot) /\ Len(owner) > Len(IoGithubDot)
               \/ StartsWith(owner, ComDot) /\ Len(owner) > Len(ComDot)

HttpPrefix == <<"h", "t", "t", "p", ":", "/", "/">>
HttpsPrefix == <<"h", "t", "t", "p", "s", ":", "/", "/">>

\* new URL(s) does not throw: s starts with a scheme of letters and a
\* colon, and something other than slashes follows (a host or a path).
UrlParses(s) ==
    \E k \in 2..Len(s) :
        /\ s[k] = ":"
        /\ \A i \in 1..(k - 1) : s[i] \in Letter
        /\ \E i \in (k + 1)..Len(s) : s[i] # "/"
        /\ \A i \in 1..Len(s) : s[i] \notin WhiteSpace

lengthLimits ==
    <<[field |-> "title", max |-> 50],
      [field |-> "description", max |-> 100],
      [field |-> "homepage", max |-> 200]>>

validRegistryTypes ==
    {<<"n", "p", "m">>, <<"p", "y", "p", "i">>, <<"n", "u", "g", "e", "t">>,
     <<"o", "c", "i">>, <<"m", "c", "p", "b">>}

validTransportTypes ==
    {<<"s", "t", "d", "i", "o">>, <<"s", "s", "e">>,
     <<"s", "t", "r", "e", "a", "m", "a", "b", "l", "e", "-",
       "h", "t", "t", "p">>}

\* Array.prototype.includes compares with strict equality.
Includes(list, v) == v.js = "string" /\ v.chars \in list

\* What the script printed and the code it exited with; version tells the
\* two versions of the script apart.
NotRun == [pc |-> "idle", version |-> "", code |-> 0,
           stdout |-> <<>>, stderr |-> <<>>]
Exited(code, stdout, stderr) ==
    [pc |-> "exited", version |-> "", code |-> code,
     stdout |-> stdout, stderr |-> stderr]

\* The lines printed, without the marks that open them.
MissingRequiredFields == "Missing required fields:"
TooLong == "must be characters or less"
TitleRequired == "Title is required and cannot be empty"
VersionFormat == "Version should follow semantic versioning (e.g., 1.0.0)"
HomepageHttp == "Homepage must be a valid HTTP(S) URL"
HomepageUrl == "Homepage must be a valid URL"
PackagesRequired == "packages array is required and must not be empty"
PackageFields == "Each package must have registryType, identifier, and version"
RegistryTypeInvalid == "Invalid registryType"
IdentifierTooLong == "Package identifier must be 100 characters or less"
TransportRequired == "Each package must have transport.type"
TransportTypeInvalid == "Invalid transport type"
EnvDescriptionTooLong == "description must be 200 characters or less"
NameFormat ==
    "Name must be in format \"io.github.username/server\" or \"com.domain/server\""
RequiredEnvVars == "Required environment variables:"
StructureValid == "server.json structure is valid!"
ReadyToPublish == "Ready to publish to MCP registry!"
ErrorValidating == "Error validating server.json:"

\* The file: readFileSync throws, JSON.parse throws, or the value parsed.
Unreadable == [kind |-> "unreadable"]
Malformed == [kind |-> "malformed"]
Json(value) == [kind |-> "json", value |-> value]

\* The outcome of the checks of one package: the line of the error that
\* ends the script, if any, and the lines logged before it.
Passes(log) == [fault |-> <<>>, log |-> log]
Fault(line, log) == [fault |-> <<line>>, log |-> log]

\* The lines logged for the packages up to the k-th.
RECURSIVE Logged(_, _)
Logged(checked, k) ==
    IF k = 0 THEN <<>> ELSE Logged(checked, k - 1) \o checked[k].log

\* for (const pkg of serverJson.packages): the loop ends the script at the
\* first package with an error.
ForOfPackages(checked) ==
    LET faulty == {i \in 1..Len(checked) : checked[i].fault # <<>>}
    IN  IF faulty = {} THEN Passes(Logged(checked, Len(checked)))
        ELSE LET k == CHOOSE i \in faulty : \A j \in faulty : i <= j
             IN  [fault |-> checked[k].fault, log |-> Logged(checked, k)]

\* The log of the required environment variables of a package.
EnvLog(env) ==
    LET IsRequired(entry) == entry.required
    IN  IF SelectSeq(env.entries, IsRequired) # <<>>
        THEN <<RequiredEnvVars>> ELSE <<>>

\* The body of the package loop of the earlier version.  Reading a
\* property of null throws, and the catch block reports it.
checkPackageEarlier(pkg) ==
    IF pkg.js = "null" THEN Fault(ErrorValidating, <<>>)
    ELSE IF Falsy(pkg.registryType) \/ Falsy(pkg.identifier) \/ Falsy(pkg.version)
    THEN Fault(PackageFields, <<>>)
    ELSE IF Falsy(pkg.transport) \/ Falsy(pkg.transport.type)
    THEN Fault(TransportRequired, <<>>)
    ELSE IF Falsy(pkg.env) THEN Passes(<<>>)
    ELSE Passes(EnvLog(pkg.env))

\* The body of the package loop, without the check of transport.type.
checkPackageAnyTransport(pkg) ==
    IF pkg.js = "null" THEN Fault(ErrorValidating, <<>>)
    ELSE IF Falsy(pkg.registryType) \/ Falsy(pkg.identifier) \/ Falsy(pkg.version)
    THEN Fault(PackageFields, <<>>)
    ELSE IF ~Includes(validRegistryTypes, pkg.registryType)
    THEN Fault(RegistryTypeInvalid, <<>>)
    ELSE IF ~Falsy(pkg.identifier) /\ LongerThan(pkg.identifier, 100)
    THEN Fault(IdentifierTooLong, <<>>)
    ELSE IF Falsy(pkg.env) THEN Passes(<<>>)
    ELSE IF \E i \in 1..Len(pkg.env.entries) :
                /\ ~Falsy(pkg.env.entries[i].description)
                /\ LongerThan(pkg.env.entries[i].description, 200)
    THEN Fault(EnvDescriptionTooLong, EnvLog(pkg.env))
    ELSE Passes(EnvLog(pkg.env))

\* The body of the package loop.
checkPackage(pkg) ==
    IF pkg.js = "null" THEN Fault(ErrorValidating, <<>>)
    ELSE IF Falsy(pkg.registryType) \/ Falsy(pkg.identifier) \/ Falsy(pkg.version)
    THEN Fault(PackageFields, <<>>)
    ELSE IF ~Includes(validRegistryTypes, pkg.registryType)
    THEN Fault(RegistryTypeInvalid, <<>>)
    ELSE IF ~Falsy(pkg.identifier) /\ LongerThan(pkg.identifier, 100)
    THEN Fault(IdentifierTooLong, <<>>)
    ELSE IF Falsy(pkg.transport) \/ Falsy(pkg.transport.type)
    THEN Fault(TransportRequired, <<>>)
    ELSE IF ~Includes(validTransportTypes, pkg.transport.type)
    THEN Fault(TransportTypeInvalid, <<>>)
    ELSE IF Falsy(pkg.env) THEN Passes(<<>>)
    ELSE IF \E i \in 1..Len(pkg.env.entries) :
                /\ ~Falsy(pkg.env.entries[i].description)
                /\ LongerThan(pkg.env.entries[i].description, 200)
    THEN Fault(EnvDescriptionTooLong, EnvLog(pkg.env))
    ELSE Passes(EnvLog(pkg.env))

\* The fields a server.json must hold; "$schema" is written schema.
required == <<"schema", "name", "title", "description", "version">>

\* required.filter((f) => !serverJson[f])
missing(json) ==
    LET IsMissing(f) == Falsy(json[f])
    IN  SelectSeq(required, IsMissing)

\* !serverJson.packages || !Array.isArray(serverJson.packages) ||
\* serverJson.packages.length === 0
NoPackages(json) ==
    Falsy(json.packages) \/ json.packages.js # "array" \/ json.packages.items = <<>>

\* The earlier version of the script (the second file of the source).
\* readFileSync or JSON.parse throws if the file cannot be read or does
\* not hold JSON, and reading a property of null or calling match on a
\* value that is not a string throws a TypeError; the catch block reports
\* either and exits with status 1.
validateServerJsonEarlier(file) ==
    IF file.kind # "json" \/ file.value.js = "null"
    THEN Exited(1, <<>>, <<ErrorValidating>>)
    ELSE LET json == file.value
             loop == ForOfPackages([i \in 1..Len(json.packages.items) |->
                                      checkPackageEarlier(json.packages.items[i])])
         IN  IF missing(json) # <<>>
             THEN Exited(1, <<>>, <<MissingRequiredFields>>)
             ELSE IF NoPackages(json)
             THEN Exited(1, <<>>, <<PackagesRequired>>)
             ELSE IF loop.fault # <<>>
             THEN Exited(1, loop.log, loop.fault)
             ELSE IF json.name.js # "string"
             THEN Exited(1, loop.log, <<ErrorValidating>>)
             ELSE IF ~MatchesNamespace(json.name.chars)
             THEN Exited(1, loop.log, <<NameFormat>>)
             ELSE Exited(0, loop.log \o <<StructureValid, ReadyToPublish>>, <<>>)

\* The script.  process.exit ends it at once, so a check is reached only
\* if those before it passed.
validateServerJson(file) ==
    IF file.kind # "json" \/ file.value.js = "null"
    THEN Exited(1, <<>>, <<ErrorValidating>>)
    ELSE LET json == file.value
             loop == ForOfPackages([i \in 1..Len(json.packages.items) |->
                                      checkPackage(json.packages.items[i])])
         IN  IF missing(json) # <<>>
             THEN Exited(1, <<>>, <<MissingRequiredFields>>)
             ELSE IF \E i \in 1..Len(lengthLimits) :
                         /\ ~Falsy(json[lengthLimits[i].field])
                         /\ LongerThan(json[lengthLimits[i].field],
                                       lengthLimits[i].max)
             THEN Exited(1, <<>>, <<TooLong>>)
             ELSE IF Falsy(json.title)
             THEN Exited(1, <<>>, <<TitleRequired>>)
             ELSE IF json.title.js # "string"
             THEN Exited(1, <<>>, <<ErrorValidating>>)
             ELSE IF trim(json.title.chars) = <<>>
             THEN Exited(1, <<>>, <<TitleRequired>>)
             ELSE IF ~Falsy(json.version) /\ json.version.js # "string"
             THEN Exited(1, <<>>, <<ErrorValidating>>)
             ELSE IF ~Falsy(json.version) /\ ~MatchesVersion(json.version.chars)
             THEN Exited(1, <<>>, <<VersionFormat>>)
             ELSE IF ~Falsy(json.homepage)
                     /\ (json.homepage.js # "string"
                         \/ ~UrlParses(json.homepage.chars))
             THEN Exited(1, <<>>, <<HomepageUrl>>)
             ELSE IF ~Falsy(json.homepage)
                     /\ ~StartsWith(json.homepage.chars, HttpPrefix)
                     /\ ~StartsWith(json.homepage.chars, HttpsPrefix)
             THEN Exited(1, <<>>, <<HomepageHttp>>)
             ELSE IF NoPackages(json)
             THEN Exited(1, <<>>, <<PackagesRequired>>)
             ELSE IF loop.fault # <<>>
             THEN Exited(1, loop.log, loop.fault)
             ELSE IF json.name.js # "string"
             THEN Exited(1, loop.log, <<ErrorValidating>>)
             ELSE IF ~MatchesNamespace(json.name.chars)
             THEN Exited(1, loop.log, <<NameFormat>>)
             ELSE Exited(0, loop.log \o <<StructureValid, ReadyToPublish>>, <<>>)

(***************************************************************************)
(* State.                                                                  *)
(*   GAMMA_API_KEY  process.env.GAMMA_API_KEY, read once at start-up       *)
(*   server         the server process: "starting" until main has          *)
(*                  connected the transport, then "running", or "exit(1)", *)
(*                  and whether the transport could be connected           *)
(*   tools          the answer to the last tool listing request, if any    *)
(*   job            the state of the remote job                            *)
(*   calls          the tool invocations in progress or just answered:     *)
(*     pc                 "unstarted", "fetching" (awaiting fetch),        *)
(*                        "sleeping" (awaiting the timer) or "done"        *)
(*     name, arguments    request.params of the invocation                 *)
(*     pollUntilComplete, maxWaitSeconds, result                           *)
(*                        the locals of getGenerationStatus                *)
(*     elapsed            Date.now() - startTime                           *)
(*     waited             time since the fetch was issued or the timer set *)
(*     delay              the delay of the timer awaited, as it was set    *)
(*     request, response  the last request issued and response received    *)
(*     outcome            what the client receives                         *)
(*     nreq               requests issued by the invocation (history)      *)
(*     terminalAt         the number of the request whose response was the *)
(*                        first with a terminal status, 0 if none yet      *)
(*     failedAt           the number of the request whose response was the *)
(*                        first non-success response, 0 if none yet        *)
(*     nsleep             timers set by the invocation (history)           *)
(*     late               by how much the last timer resolved late         *)
(*                        (history)                                        *)
(*     brokenAt           the number of the request that failed without a  *)
(*                        response, 0 if none did (history)                *)
(*     cause              where the invocation's error was raised          *)
(*     punctual           every response so far came at once and every     *)
(*                        timer fired on time (history)                    *)
(*     early              the job was terminal at some moment before       *)
(*                        maxWaitSeconds had elapsed (history)             *)
(*     steady             the invocation was a single check, its response  *)
(*                        was a success and the remote job has not changed *)
(*                        since (history)                                  *)
(*   previous       of the invocation answered before: the cause and kind   *)
(*                  of the error that the client got, if any; the payload  *)
(*                  if it was a single check that returned one, and        *)
(*                  whether the remote job has not changed since its       *)
(*                  response                                               *)
(*   serverJson     the file server.json that the registry validator       *)
(*                  reads: unreadable, not JSON, or the value it holds     *)
(*   validation     the run of the validator script: which version ran,    *)
(*                  its exit code and what it printed                      *)
(***************************************************************************)
VARIABLES GAMMA_API_KEY, server, tools, job, calls, previous,
          serverJson, validation

vars == <<GAMMA_API_KEY, server, tools, job, calls, previous,
         serverJson, validation>>

InitCall ==
    [pc |-> "unstarted", name |-> "", arguments |-> NoArguments,
     pollUntilComplete |-> FALSE, maxWaitSeconds |-> 0,
     elapsed |-> 0, waited |-> 0, delay |-> 0,
     request |-> NoRequest, nreq |-> 0, terminalAt |-> 0, failedAt |-> 0,
     brokenAt |-> 0, nsleep |-> 0, late |-> 0, steady |-> FALSE,
     response |-> NoResponse, result |-> NoResult,
     outcome |-> NoOutcome, cause |-> "", punctual |-> TRUE, early |-> FALSE]

NoPrevious == [cause |-> "none", code |-> "", ret |-> NoResult, steady |-> FALSE]

\* What is kept of an invocation when the client sends the next one.
Answered(call) ==
    [cause |-> call.cause,
     code |-> IF call.outcome.kind = "error" THEN call.outcome.error.code ELSE "",
     ret |-> IF call.steady /\ call.outcome.kind = "result"
             THEN call.outcome.ret ELSE NoResult,
     steady |-> call.steady /\ call.outcome.kind = "result"]

\* The server process before main has run.
Starting == [state |-> "starting", transport |-> "unconnected"]

\* main, requiring the credential.
mainRequiringKey(connected) ==
    IF ~Truthy(GAMMA_API_KEY)
    THEN [state |-> "exit(1)",
          transport |-> IF connected THEN "connected" ELSE "failed"]
    ELSE IF connected
    THEN [state |-> "running", transport |-> "connected"]
    ELSE [state |-> "exit(1)", transport |-> "failed"]

\* main: connect the transport; main().catch exits the process with code 1.
main(connected) ==
    IF connected
    THEN [state |-> "running", transport |-> "connected"]
    ELSE [state |-> "exit(1)", transport |-> "failed"]

\* The server is running on its transport.
Init ==
    /\ GAMMA_API_KEY \in {Undefined, Some(""), Some("sk-gamma-key")}
    /\ server = main(TRUE)
    /\ tools = Undefined
    /\ job \in JobStates
    /\ calls = [c \in Calls |-> InitCall]
    /\ previous = NoPrevious
    /\ serverJson = Unreadable
    /\ validation = NotRun

(***************************************************************************)
(* Steps of one invocation.  Each operator gives the invocation's record   *)
(* after the step.                                                         *)
(***************************************************************************)
Active(call) == call.pc \in {"fetching", "sleeping"}

\* fetch(url, options): the request leaves now.
Fetch(call, request) ==
    [call EXCEPT !.pc = "fetching", !.request = request,
                 !.nreq = @ + 1, !.waited = 0]

\* Return, keeping of the payload only its identifier and status.
ReturnStatusOnly(call, result) ==
    [call EXCEPT !.pc = "done",
                 !.outcome = [kind |-> "result",
                              ret |-> [result EXCEPT !.gammaUrl = "undefined"],
                              content |-> <<[type |-> "text",
                                             text |-> JSONstringify(
                                                 [result EXCEPT !.gammaUrl = "undefined"], 2)]>>]]

\* The handler's try block completed: the tool result goes to the client.
Return(call, result) ==
    [call EXCEPT !.pc = "done",
                 !.outcome = [kind |-> "result", ret |-> result,
                              content |-> <<[type |-> "text",
                                             text |-> JSONstringify(result, 2)]>>]]

\* HandlerCatch, wrapping whatever was thrown.
HandlerCatchWrappingAll(prefix, error) ==
    McpError(InternalError, <<prefix>> \o error.message)

\* HandlerCatch, rethrowing whatever was thrown.
HandlerCatchRethrowing(prefix, error) == error

\* The handler's catch block: an McpError is rethrown, anything else wrapped.
HandlerCatch(prefix, error) ==
    IF error.class = "McpError"
    THEN error
    ELSE McpError(InternalError, <<prefix>> \o error.message)

FailurePrefix(name) ==
    IF name = "generate_gamma" THEN "Failed to generate gamma: "
                               ELSE "Failed to get generation status: "

Throw(call, cause, error) ==
    [call EXCEPT !.pc = "done", !.cause = cause,
                 !.outcome = [kind |-> "error", thrown |-> error,
                              error |-> HandlerCatch(FailurePrefix(call.name), error)]]

\* MissingKeyError, raised as an internal error.
MissingKeyErrorInternal ==
    McpError(InternalError, <<"GAMMA_API_KEY environment variable is not set">>)

MissingKeyError ==
    McpError(InvalidRequest, <<"GAMMA_API_KEY environment variable is not set">>)

\* ApiError, without the response body.
ApiErrorWithoutBody(response) ==
    McpError(InternalError, <<"Gamma API error (", response.status, "): ", "">>)

ApiError(response) ==
    McpError(InternalError,
             <<"Gamma API error (", response.status, "): ", response.text>>)

\* TimeoutError, without the status of the last response.
TimeoutErrorWithoutStatus(maxWaitSeconds, result) ==
    McpError(InternalError,
             <<"Generation polling timed out after ", maxWaitSeconds,
               " seconds. Current status: ", "undefined">>)

TimeoutError(maxWaitSeconds, result) ==
    McpError(InternalError,
             <<"Generation polling timed out after ", maxWaitSeconds,
               " seconds. Current status: ", result.status>>)

\* generateGamma, sending the input text only.
generateGammaInputTextOnly(call, params) ==
    IF ~Truthy(GAMMA_API_KEY)
    THEN Throw(call, "credential", MissingKeyError)
    ELSE Fetch(call, [method |-> "POST",
                      url |-> <<GAMMA_API_BASE, "/generations">>,
                      key |-> GAMMA_API_KEY,
                      body |-> Some(JSONstringify(
                                  [NoArguments EXCEPT !.inputText = params.inputText], 0))])

\* generateGamma up to its await of fetch.
generateGamma(call, params) ==
    IF ~Truthy(GAMMA_API_KEY)
    THEN Throw(call, "credential", MissingKeyError)
    ELSE Fetch(call, [method |-> "POST",
                      url |-> <<GAMMA_API_BASE, "/generations">>,
                      key |-> GAMMA_API_KEY,
                      body |-> Some(JSONstringify(params, 0))])

\* The request fetchStatus issues.
StatusRequest(generationId) ==
    [method |-> "GET",
     url |-> <<GAMMA_API_BASE, "/generations/", generationId>>,
     key |-> GAMMA_API_KEY,
     body |-> Undefined]

\* getGenerationStatus up to its first await of fetch.
getGenerationStatus(call, generationId, pollUntilCompleteArg, maxWaitSecondsArg) ==
    LET pollUntilComplete == OrDefault(pollUntilCompleteArg, ParamPollUntilComplete)
        maxWaitSeconds == OrDefault(maxWaitSecondsArg, ParamMaxWaitSeconds)
        entered == [call EXCEPT !.pollUntilComplete = pollUntilComplete,
                                !.maxWaitSeconds = maxWaitSeconds]
    IN  IF ~Truthy(GAMMA_API_KEY)
        THEN Throw(entered, "credential", MissingKeyError)
        ELSE Fetch([entered EXCEPT !.elapsed = 0,
                                   !.early = job \in TerminalStatuses],
                   StatusRequest(generationId))

\* StatusArguments, leaving the defaults to getGenerationStatus.
StatusArgumentsAsSent(arguments) ==
    [generationId |-> arguments.generationId,
     pollUntilComplete |-> arguments.pollUntilComplete,
     maxWaitSeconds |-> arguments.maxWaitSeconds]

\* StatusArguments, polling whatever the flag that was sent.
StatusArgumentsAlwaysPolling(arguments) ==
    [generationId |-> arguments.generationId,
     pollUntilComplete |-> Some(DefaultPollUntilComplete),
     maxWaitSeconds |->
         Some(OrDefault(arguments.maxWaitSeconds, DefaultMaxWaitSeconds))]

\* The handler's destructuring of request.params.arguments, with defaults.
StatusArguments(arguments) ==
    [generationId |-> arguments.generationId,
     pollUntilComplete |->
         Some(OrDefault(arguments.pollUntilComplete, DefaultPollUntilComplete)),
     maxWaitSeconds |->
         Some(OrDefault(arguments.maxWaitSeconds, DefaultMaxWaitSeconds))]

\* The ListToolsRequestSchema handler: the tools the server advertises, with
\* the required properties and the defaults of their input schemas.
ListToolsHandler ==
    [tools |-> <<[name |-> "generate_gamma",
                  required |-> {"inputText"},
                  defaults |-> [textMode |-> "generate",
                                format |-> "presentation",
                                numCards |-> 10,
                                cardSplit |-> "auto"]],
                 [name |-> "get_gamma_generation",
                  required |-> {"generationId"},
                  defaults |-> [pollUntilComplete |-> TRUE,
                                maxWaitSeconds |-> 300]]>>]

\* UnknownToolError, raised as an invalid request.
UnknownToolErrorInvalidRequest(name) ==
    McpError(InvalidRequest, <<"Unknown tool: ", name>>)

UnknownToolError(name) == McpError(MethodNotFound, <<"Unknown tool: ", name>>)

\* CallToolHandler, testing the credential before the tool name.
CallToolHandlerKeyFirst(call, name, arguments) ==
    LET named == [call EXCEPT !.name = name, !.arguments = arguments]
    IN  IF ~Truthy(GAMMA_API_KEY)
        THEN Throw(named, "credential", MissingKeyError)
        ELSE IF name = "generate_gamma"
        THEN generateGamma(named, arguments)
        ELSE IF name = "get_gamma_generation"
        THEN getGenerationStatus(named,
                                 StatusArguments(arguments).generationId,
                                 StatusArguments(arguments).pollUntilComplete,
                                 StatusArguments(arguments).maxWaitSeconds)
        ELSE [named EXCEPT !.pc = "done", !.cause = "unknown tool",
                           !.outcome = [kind |-> "error",
                                        thrown |-> UnknownToolError(name),
                                        error |-> UnknownToolError(name)]]

\* The CallToolRequestSchema handler up to its first await.
CallToolHandler(call, name, arguments) ==
    LET named == [call EXCEPT !.name = name, !.arguments = arguments]
    IN  IF name = "generate_gamma"
        THEN generateGamma(named, arguments)
        ELSE IF name = "get_gamma_generation"
        THEN getGenerationStatus(named,
                                 StatusArguments(arguments).generationId,
                                 StatusArguments(arguments).pollUntilComplete,
                                 StatusArguments(arguments).maxWaitSeconds)
        ELSE [named EXCEPT !.pc = "done", !.cause = "unknown tool",
                           !.outcome = [kind |-> "error",
                                        thrown |-> UnknownToolError(name),
                                        error |-> UnknownToolError(name)]]

\* IsTerminal, taking every status but "pending" and "running" for terminal.
IsTerminalUnlessRunning(status) == status \notin {"pending", "running"}

\* IsTerminal, taking "failed" for a running status.
IsTerminalCompletedOnly(status) == status = "completed"

IsTerminal(status) == status = "completed" \/ status = "failed"

\* TimedOut, converting the elapsed milliseconds to seconds twice.
TimedOutDividingTwice(call) ==
    call.elapsed >= call.maxWaitSeconds * MsPerSecond * MsPerSecond

\* TimedOut, with one more interval of grace.
TimedOutAfterGrace(call) ==
    call.elapsed >= call.maxWaitSeconds * MsPerSecond + pollInterval

\* TimedOut, only when the wait was exceeded.
TimedOutStrictly(call) ==
    call.elapsed > call.maxWaitSeconds * MsPerSecond

\* elapsedSeconds >= maxWaitSeconds, with elapsedSeconds = elapsed / 1000.
TimedOut(call) ==
    call.elapsed >= call.maxWaitSeconds * MsPerSecond

\* Suspend, on a promise that nothing resolves: no timer is set.
SuspendWithoutTimer(call, ms) ==
    [call EXCEPT !.pc = "suspended", !.waited = 0, !.nsleep = @ + 1]

\* Suspend, waiting longer at every pass of the loop.
SuspendWithBackoff(call, ms) ==
    [call EXCEPT !.pc = "sleeping", !.waited = 0, !.delay = ms * (call.nsleep + 1),
                 !.nsleep = @ + 1]

\* await new Promise((resolve) => setTimeout(resolve, ms)).
Suspend(call, ms) ==
    [call EXCEPT !.pc = "sleeping", !.waited = 0, !.delay = ms, !.nsleep = @ + 1]

\* generateGamma from the response on.
generateGammaResume(call, response) ==
    IF ~response.ok
    THEN Throw(call, "http", ApiError(response))
    ELSE Return([call EXCEPT !.result = JSONparse(response.text)],
                JSONparse(response.text))

\* getGenerationStatusResume, testing the elapsed time before the status.
getGenerationStatusResumeTimeoutFirst(call, response) ==
    IF ~response.ok
    THEN Throw(call, "http", ApiError(response))
    ELSE LET result == JSONparse(response.text)
             got == [call EXCEPT !.result = result]
         IN  IF ~call.pollUntilComplete
             THEN Return(got, result)
             ELSE IF TimedOut(call)
             THEN Throw(got, "timeout", TimeoutError(call.maxWaitSeconds, result))
             ELSE IF IsTerminal(result.status)
             THEN Return(got, result)
             ELSE Suspend(got, pollInterval)

\* getGenerationStatusResume, answering a timeout with the last payload.
getGenerationStatusResumeBestEffort(call, response) ==
    IF ~response.ok
    THEN Throw(call, "http", ApiError(response))
    ELSE LET result == JSONparse(response.text)
             got == [call EXCEPT !.result = result]
         IN  IF ~call.pollUntilComplete
             THEN Return(got, result)
             ELSE IF IsTerminal(result.status)
             THEN Return(got, result)
             ELSE IF TimedOut(call)
             THEN Return(got, result)
             ELSE Suspend(got, pollInterval)

\* getGenerationStatus from a response of fetchStatus on: one pass of the loop.
getGenerationStatusResume(call, response) ==
    IF ~response.ok
    THEN Throw(call, "http", ApiError(response))
    ELSE LET result == JSONparse(response.text)
             got == [call EXCEPT !.result = result]
         IN  IF ~call.pollUntilComplete
             THEN Return(got, result)
             ELSE IF IsTerminal(result.status)
             THEN Return(got, result)
             ELSE IF TimedOut(call)
             THEN Throw(got, "timeout", TimeoutError(call.maxWaitSeconds, result))
             ELSE Suspend(got, pollInterval)

(***************************************************************************)
(* Actions.                                                                *)
(***************************************************************************)
\* CallTool, answering a single check from the payload of the single check
\* before it.
CallToolCachedStatus(c, name, arguments) ==
    /\ server.state = "running"
    /\ ~Active(calls[c])
    /\ calls' = [calls EXCEPT ![c] =
          IF /\ name = "get_gamma_generation"
             /\ arguments.pollUntilComplete = Some(FALSE)
             /\ calls[c].name = "get_gamma_generation"
             /\ calls[c].outcome.kind = "result"
          THEN Return([InitCall EXCEPT !.name = name, !.arguments = arguments,
                                       !.maxWaitSeconds = calls[c].maxWaitSeconds,
                                       !.result = calls[c].result],
                      calls[c].result)
          ELSE CallToolHandler(InitCall, name, arguments)]
    /\ previous' = IF calls[c].pc = "done" THEN Answered(calls[c]) ELSE previous
    /\ UNCHANGED <<serverJson, validation, GAMMA_API_KEY, server, tools, job>>

\* CallTool, with startTime kept in one variable that all invocations share.
CallToolSharedStartTime(c, name, arguments) ==
    /\ server.state = "running"
    /\ ~Active(calls[c])
    /\ calls' = [d \in Calls |->
          IF d = c THEN CallToolHandler(InitCall, name, arguments)
          ELSE IF Active(calls[d]) /\ name = "get_gamma_generation"
          THEN [calls[d] EXCEPT !.elapsed = 0]
          ELSE calls[d]]
    /\ previous' = IF calls[c].pc = "done" THEN Answered(calls[c]) ELSE previous
    /\ UNCHANGED <<serverJson, validation, GAMMA_API_KEY, server, tools, job>>

\* The client invokes a tool; c is free, or holds an invocation that was
\* answered.
CallTool(c, name, arguments) ==
    /\ server.state = "running"
    /\ ~Active(calls[c])
    /\ calls' = [calls EXCEPT ![c] = CallToolHandler(InitCall, name, arguments)]
    /\ previous' = IF calls[c].pc = "done" THEN Answered(calls[c]) ELSE previous
    /\ UNCHANGED <<serverJson, validation, GAMMA_API_KEY, server, tools, job>>

\* main runs: the transport connects, or fails to.
Connect ==
    /\ server.state = "starting"
    /\ \E connected \in BOOLEAN : server' = main(connected)
    /\ UNCHANGED <<serverJson, validation, GAMMA_API_KEY, tools, job, calls, previous>>

\* The client asks for the list of tools.
ListTools ==
    /\ server.state = "running"
    /\ tools' = Some(ListToolsHandler)
    /\ UNCHANGED <<serverJson, validation, GAMMA_API_KEY, server, job, calls, previous>>

\* A response of the service reaches the invocation.
Arrived(call, response) ==
    [call EXCEPT !.response = response,
                 !.punctual = @ /\ call.waited = 0,
                 !.steady = /\ response.ok
                            /\ call.name = "get_gamma_generation"
                            /\ ~call.pollUntilComplete,
                 !.terminalAt =
                     IF @ = 0 /\ response.ok
                        /\ JSONparse(response.text).status \in TerminalStatuses
                     THEN call.nreq ELSE @,
                 !.failedAt = IF @ = 0 /\ ~response.ok THEN call.nreq ELSE @]

\* The service answers the POST of a submission.  It creates the job if
\* there is none, and refuses otherwise.
SubmitResponds(c) ==
    /\ calls[c].pc = "fetching"
    /\ calls[c].name = "generate_gamma"
    /\ \E accept \in BOOLEAN :
         IF accept /\ job = "absent"
         THEN /\ job' = "pending"
              /\ calls' = [d \in Calls |->
                    IF d = c
                    THEN generateGammaResume(
                             Arrived(calls[c], OkResponse(JobBody("pending"))),
                             OkResponse(JobBody("pending")))
                    ELSE [calls[d] EXCEPT !.steady = FALSE]]
              /\ previous' = [previous EXCEPT !.steady = FALSE]
         ELSE /\ job' = job
              /\ calls' = [calls EXCEPT ![c] =
                    generateGammaResume(Arrived(@, ErrorResponse(429, RateLimitedBody)),
                                        ErrorResponse(429, RateLimitedBody))]
              /\ previous' = previous
    /\ UNCHANGED <<serverJson, validation, GAMMA_API_KEY, server, tools>>

\* The service answers a GET of the status.
StatusResponds(c) ==
    /\ calls[c].pc = "fetching"
    /\ calls[c].name = "get_gamma_generation"
    /\ \E response \in StatusResponses(job) :
         calls' = [calls EXCEPT ![c] =
                      getGenerationStatusResume(Arrived(@, response), response)]
    /\ UNCHANGED <<serverJson, validation, GAMMA_API_KEY, server, tools, job, previous>>

\* The request itself fails: fetch rejects.
FetchFails(c) ==
    /\ calls[c].pc = "fetching"
    /\ calls' = [calls EXCEPT ![c] =
                    Throw([@ EXCEPT !.punctual = @ /\ calls[c].waited = 0,
                                    !.brokenAt = calls[c].nreq],
                          "network", FetchFailed)]
    /\ UNCHANGED <<serverJson, validation, GAMMA_API_KEY, server, tools, job, previous>>

\* The timer resolves, no earlier than its delay, and the loop issues the next status request.
TimerFires(c) ==
    /\ calls[c].pc = "sleeping"
    /\ calls[c].waited >= calls[c].delay
    /\ calls' = [calls EXCEPT ![c] =
                    Fetch([@ EXCEPT !.punctual = @ /\ calls[c].waited = calls[c].delay,
                                    !.late = calls[c].waited - calls[c].delay],
                          StatusRequest(calls[c].arguments.generationId))]
    /\ UNCHANGED <<serverJson, validation, GAMMA_API_KEY, server, tools, job, previous>>

\* The remote service works on the job.
RemoteAdvance ==
    /\ job \in RunningStatuses
    /\ \E st \in (RunningStatuses \cup TerminalStatuses) \ {job} :
         /\ job' = st
         /\ calls' = [c \in Calls |->
               IF Active(calls[c]) /\ st \in TerminalStatuses /\ ~TimedOut(calls[c])
               THEN [calls[c] EXCEPT !.early = TRUE, !.steady = FALSE]
               ELSE [calls[c] EXCEPT !.steady = FALSE]]
    /\ previous' = IF \E c \in Calls : Active(calls[c])
                   THEN [previous EXCEPT !.steady = FALSE]
                   ELSE previous
    /\ UNCHANGED <<serverJson, validation, GAMMA_API_KEY, server, tools>>

\* One second passes.  No response is later than MaxRtt, no timer later
\* than MaxLate.
Tick ==
    /\ \E c \in Calls : Active(calls[c])
    /\ \A c \in Calls :
         /\ calls[c].pc = "fetching" =>
              calls[c].waited + MsPerSecond <= MaxRtt * MsPerSecond
         /\ calls[c].pc = "sleeping" =>
              calls[c].waited + MsPerSecond <= calls[c].delay + MaxLate * MsPerSecond
    /\ calls' = [c \in Calls |->
          IF Active(calls[c])
          THEN [calls[c] EXCEPT !.elapsed = @ + MsPerSecond,
                                !.waited = @ + MsPerSecond]
          ELSE calls[c]]
    /\ UNCHANGED <<serverJson, validation, GAMMA_API_KEY, server, tools, job, previous>>

\* The names and arguments the client sends: the two tools with arguments
\* of their schema, and a tool the server does not implement.
ClientCalls ==
    ({"generate_gamma", "delete_gamma"} \X GenerateArguments) \cup
    ({"get_gamma_generation"} \X ExplicitStatusArguments)

Next ==
    \/ \E call \in ClientCalls : CallTool(1, call[1], call[2])
    \/ \E c \in Calls : SubmitResponds(c)
    \/ \E c \in Calls : StatusResponds(c)
    \/ \E c \in Calls : FetchFails(c)
    \/ \E c \in Calls : TimerFires(c)
    \/ RemoteAdvance
    \/ Tick

\* The client sends one invocation after the other, with explicit arguments.
Spec == Init /\ [][Next]_vars

(***************************************************************************)
(* The client sends one poll after the other, and the runtime gives        *)
(* progress: time advances, every request that was issued is answered or   *)
(* fails, and a timer whose delay has passed resolves.                     *)
(***************************************************************************)
PollArguments ==
    {arguments \in ExplicitStatusArguments :
        arguments.pollUntilComplete = Some(TRUE)}

NextProgress ==
    \/ \E arguments \in PollArguments :
         CallTool(1, "get_gamma_generation", arguments)
    \/ \E c \in Calls : StatusResponds(c)
    \/ \E c \in Calls : FetchFails(c)
    \/ \E c \in Calls : TimerFires(c)
    \/ RemoteAdvance
    \/ Tick

Progress ==
    /\ WF_vars(Tick)
    /\ \A c \in Calls :
         WF_vars(StatusResponds(c) \/ FetchFails(c))
    /\ \A c \in Calls : WF_vars(TimerFires(c))

SpecProgress == Init /\ [][NextProgress]_vars /\ Progress

(***************************************************************************)
(* The client leaves pollUntilComplete and maxWaitSeconds out, or sends    *)
(* the documented defaults.  The clock is a test clock: responses come at  *)
(* once and timers fire on time.                                           *)
(***************************************************************************)
TickExact ==
    /\ \A c \in Calls :
         /\ calls[c].pc # "fetching"
         /\ calls[c].pc = "sleeping" => calls[c].waited + MsPerSecond <= calls[c].delay
    /\ Tick

NextDefaults ==
    \/ \E arguments \in DefaultedStatusArguments :
         CallTool(1, "get_gamma_generation", arguments)
    \/ \E c \in Calls : StatusResponds(c)
    \/ \E c \in Calls : FetchFails(c)
    \/ \E c \in Calls : TimerFires(c)
    \/ RemoteAdvance
    \/ TickExact

SpecDefaults == Init /\ [][NextDefaults]_vars

(***************************************************************************)
(* The client sends two invocations that may overlap: a submission, a      *)
(* single check or a poll of up to ConcurrentWait seconds each, the second *)
(* at any moment before, while or after the first is in progress.  The     *)
(* responses take up to MaxRtt seconds; the timers resolve on time.        *)
(***************************************************************************)
ConcurrentCalls ==
    {<<"generate_gamma", [NoArguments EXCEPT !.inputText = Some("Q3 review")]>>} \cup
    {<<"get_gamma_generation",
       [NoArguments EXCEPT !.generationId = Some("gen_123"),
                           !.pollUntilComplete = Some(p),
                           !.maxWaitSeconds = Some(ConcurrentWait)]>> : p \in BOOLEAN}

\* One second passes, and no timer is late.
TickOnTime ==
    /\ \A c \in Calls :
         calls[c].pc = "sleeping" => calls[c].waited + MsPerSecond <= calls[c].delay
    /\ Tick

NextConcurrent ==
    \/ \E c \in Calls, call \in ConcurrentCalls :
         /\ calls[c].pc = "unstarted"
         /\ CallTool(c, call[1], call[2])
    \/ \E c \in Calls : SubmitResponds(c)
    \/ \E c \in Calls : StatusResponds(c)
    \/ \E c \in Calls : FetchFails(c)
    \/ \E c \in Calls : TimerFires(c)
    \/ RemoteAdvance
    \/ TickOnTime

SpecConcurrent == Init /\ [][NextConcurrent]_vars

(***************************************************************************)
(* The server from the start of its process: main runs, then the client    *)
(* lists the tools and invokes them one after the other.                   *)
(***************************************************************************)
InitStartup ==
    /\ GAMMA_API_KEY \in {Undefined, Some(""), Some("sk-gamma-key")}
    /\ server = Starting
    /\ tools = Undefined
    /\ job \in JobStates
    /\ calls = [c \in Calls |-> InitCall]
    /\ previous = NoPrevious
    /\ serverJson = Unreadable
    /\ validation = NotRun

NextStartup ==
    \/ Connect
    \/ ListTools
    \/ \E call \in ConcurrentCalls : CallTool(1, call[1], call[2])
    \/ \E c \in Calls : SubmitResponds(c)
    \/ \E c \in Calls : StatusResponds(c)
    \/ \E c \in Calls : FetchFails(c)
    \/ \E c \in Calls : TimerFires(c)
    \/ RemoteAdvance
    \/ Tick

SpecStartup == InitStartup /\ [][NextStartup]_vars

(***************************************************************************)
(* The validator run on a server.json.  The files tried have each field    *)
(* absent, empty, of another type, beyond its limit or well formed.        *)
(***************************************************************************)
SchemaUrl == Str(HttpsPrefix \o <<"m", "c", "p", ".", "i", "o">>)
GammaChars == <<"g", "a", "m", "m", "a">>
OneZeroZero == <<"1", ".", "0", ".", "0">>

Names ==
    {Absent, Str(<<>>), Num(1),
     Str(IoGithubDot \o <<"a", "/">> \o GammaChars),
     Str(ComDot \o <<"a", ".", "b", "/">> \o GammaChars),
     Str(GammaChars),
     Str(IoGithubDot \o <<"/">> \o GammaChars),
     Str(IoGithubDot \o <<"a", "/", "b", "/">> \o GammaChars),
     Str(<<"o", "r", "g", ".", "a", "/">> \o GammaChars),
     Str(<<"x">> \o ComDot \o <<"a", "/">> \o GammaChars),
     Str(ComDot \o <<"a", "/">>)}

Titles == {Absent, Str(GammaChars), Str(<<" ", " ">>), Str(Repeat("t", 51))}

Descriptions == {Str(<<>>), Str(GammaChars), Str(Repeat("d", 101))}

Versions ==
    {Absent, Num(1), Str(OneZeroZero), Str(<<"1", ".", "0">>),
     Str(OneZeroZero \o <<"-", "r", "c">>), Str(<<"v">> \o OneZeroZero)}

Homepages ==
    {Absent, Str(HttpsPrefix \o GammaChars),
     Str(<<"f", "t", "p", ":", "/", "/">> \o GammaChars),
     Str(GammaChars), Str(HttpPrefix)}

Package(registryType, identifier, version, transport, env) ==
    [js |-> "object", registryType |-> registryType,
     identifier |-> identifier, version |-> version,
     transport |-> transport, env |-> env]
Transport(type) == [js |-> "object", type |-> type]
Env(entries) == [js |-> "object", entries |-> entries]
EnvEntry(name, isRequired, description) ==
    [name |-> name, required |-> isRequired, description |-> description]

Npm == Str(<<"n", "p", "m">>)
Stdio == Transport(Str(<<"s", "t", "d", "i", "o">>))
ApiKeyEnv == Env(<<EnvEntry("GAMMA_API_KEY", TRUE, Str(GammaChars))>>)
GoodPackage == Package(Npm, Str(GammaChars), Str(OneZeroZero), Stdio, ApiKeyEnv)

PackageLists ==
    {Absent, Str(GammaChars), Arr(<<>>),
     Arr(<<GoodPackage>>),
     Arr(<<GoodPackage,
           Package(Npm, Str(GammaChars), Str(OneZeroZero), Stdio, Absent)>>),
     Arr(<<GoodPackage,
           Package(Npm, Str(GammaChars), Str(OneZeroZero), Absent, Absent)>>),
     Arr(<<GoodPackage,
           Package(Npm, Str(GammaChars), Str(OneZeroZero),
                   Transport(Absent), Absent)>>),
     Arr(<<Package(Npm, Absent, Str(OneZeroZero), Stdio, Absent)>>),
     Arr(<<Package(Absent, Str(GammaChars), Str(OneZeroZero), Stdio, Absent)>>),
     Arr(<<Package(Npm, Str(GammaChars), Str(<<>>), Stdio, Absent)>>),
     Arr(<<Package(Str(<<"g", "e", "m">>), Str(GammaChars), Str(OneZeroZero),
                   Stdio, Absent)>>),
     Arr(<<Package(Npm, Str(GammaChars), Str(OneZeroZero),
                   Transport(Str(<<"p", "i", "p", "e">>)), Absent)>>),
     Arr(<<Package(Npm, Str(Repeat("i", 101)), Str(OneZeroZero), Stdio,
                   Absent)>>),
     Arr(<<Package(Npm, Str(GammaChars), Str(OneZeroZero), Stdio,
                   Env(<<EnvEntry("GAMMA_API_KEY", TRUE,
                                  Str(Repeat("e", 201)))>>))>>),
     Arr(<<Null>>)}

\* The files tried: one that cannot be read, one that is not JSON, one
\* that holds null, and the objects built from the values above.
Files(schemas, names, titles, descriptions, versions, homepages, packages) ==
    {Unreadable, Malformed, Json(Null)}
    \cup {Json([js |-> "object", schema |-> schema, name |-> name,
                title |-> title, description |-> description,
                version |-> version, homepage |-> homepage,
                packages |-> list]) :
            schema \in schemas, name \in names, title \in titles,
            description \in descriptions, version \in versions,
            homepage \in homepages, list \in packages}

InitValidator ==
    /\ GAMMA_API_KEY = Undefined
    /\ server = Starting
    /\ tools = Undefined
    /\ job = "absent"
    /\ calls = [c \in Calls |-> InitCall]
    /\ previous = NoPrevious
    /\ serverJson \in Files({Absent, SchemaUrl}, Names, Titles, Descriptions,
                           Versions, Homepages, PackageLists)
    /\ validation = NotRun

\* npm run validate, with the script as it is.
Validate ==
    /\ validation.pc = "idle"
    /\ validation' = [validateServerJson(serverJson) EXCEPT !.version = "current"]
    /\ UNCHANGED <<serverJson, GAMMA_API_KEY, server, tools, job, calls, previous>>

\* npm run validate, with the earlier version of the script.
ValidateEarlier ==
    /\ validation.pc = "idle"
    /\ validation' = [validateServerJsonEarlier(serverJson)
                        EXCEPT !.version = "earlier"]
    /\ UNCHANGED <<serverJson, GAMMA_API_KEY, server, tools, job, calls, previous>>

NextValidator ==
    \/ Validate
    \/ ValidateEarlier

SpecValidator == InitValidator /\ [][NextValidator]_vars

(***************************************************************************)
(* Properties.                                                             *)
(***************************************************************************)
Started(call) == call.pc # "unstarted"
\* A credential is configured: the variable is set and not empty.
Configured == GAMMA_API_KEY \notin {Undefined, Some("")}
IsStatusCall(call) == Started(call) /\ call.name = "get_gamma_generation"
IsSubmission(call) == Started(call) /\ call.name = "generate_gamma"

\* An invocation of the status tool that asks to poll, with a credential.
IsPolling(call) ==
    IsStatusCall(call) /\ Configured /\ call.arguments.pollUntilComplete = Some(TRUE)

\* An invocation of the status tool that asks for a single check, with a
\* credential.
IsSingleCheck(call) ==
    IsStatusCall(call) /\ Configured /\ call.arguments.pollUntilComplete = Some(FALSE)

MaxWaitMs(call) == call.arguments.maxWaitSeconds[1] * MsPerSecond

\* The payload of the last response.
Payload(call) == JSONparse(call.response.text)

\* The last response was a success response with a running status.
GotRunning(call) ==
    call.response.ok /\ Payload(call).status \notin TerminalStatuses

\* C1: a polling invocation whose responses come at once and whose timers
\* fire on time, and whose N-th response is the first with a terminal
\* status, where N * 5 s <= max wait, has ended with exactly that payload
\* as its result, after exactly N requests and (N - 1) * 5 s; and such an
\* invocation does not time out after k responses unless (k + 1) * 5 s is
\* more than max wait.
C1_TerminalWithinWait ==
    \A c \in Calls :
        LET call == calls[c]
            N == call.terminalAt
        IN  IsPolling(call) /\ call.punctual =>
              /\ (N > 0 /\ N * pollInterval <= MaxWaitMs(call)) =>
                    /\ call.pc = "done"
                    /\ call.outcome.kind = "result"
                    /\ call.outcome.ret = Payload(call)
                    /\ call.outcome.ret.status \in TerminalStatuses
                    /\ call.outcome.ret.gammaUrl =
                         (IF job = "completed" THEN "https://gamma.app/docs/abc"
                                               ELSE "undefined")
                    /\ call.nreq = N
                    /\ call.elapsed = (N - 1) * pollInterval
              /\ call.cause = "timeout" =>
                    (call.nreq + 1) * pollInterval > MaxWaitMs(call)

\* C1 witness: pending, pending, completed with max wait >= 15 s: three
\* requests, 10 s, the payload with its gammaUrl.
C1_Witness ==
    \E c \in Calls :
        /\ IsPolling(calls[c]) /\ calls[c].punctual
        /\ calls[c].terminalAt = 3
        /\ 3 * pollInterval <= MaxWaitMs(calls[c])
        /\ calls[c].pc = "done"
        /\ calls[c].nreq = 3
        /\ calls[c].elapsed = 10000
        /\ calls[c].outcome.kind = "result"
        /\ calls[c].outcome.ret.status = "completed"
        /\ calls[c].outcome.ret.gammaUrl = "https://gamma.app/docs/abc"

\* C2: a single-check invocation with a credential has issued exactly one
\* status request, never waits, and when the response is a success
\* response its payload is the result, whatever its status.
C2_SingleCheckOneRequest ==
    \A c \in Calls :
        LET call == calls[c]
        IN  IsSingleCheck(call) =>
              /\ call.nreq = 1
              /\ call.pc \in {"fetching", "done"}
              /\ call.pollUntilComplete = FALSE
              /\ (call.pc = "done" /\ call.response.ok) =>
                    /\ call.outcome.kind = "result"
                    /\ call.outcome.ret = Payload(call)
                    /\ call.cause = ""

\* C2 witness: a single check answered with a running status.
C2_Witness ==
    \E c \in Calls :
        /\ IsSingleCheck(calls[c])
        /\ calls[c].pc = "done"
        /\ calls[c].nreq = 1
        /\ calls[c].outcome.kind = "result"
        /\ calls[c].outcome.ret.status = "running"

\* C3 as stated: a polling invocation during which the job was at no moment
\* terminal before max wait had elapsed, and no request of which failed,
\* ends with the timeout error, which reports at least max wait.
C3_Original ==
    \A c \in Calls :
        LET call == calls[c]
        IN  (/\ IsPolling(call)
             /\ call.pc = "done"
             /\ ~call.early
             /\ call.cause \notin {"http", "network"}) =>
              /\ call.cause = "timeout"
              /\ call.outcome.error.message[2] >= call.arguments.maxWaitSeconds[1]

\* C3 amended: a polling invocation ends with the timeout error exactly
\* when it receives a running status max wait or more after its first
\* request (a terminal status that arrives after max wait is not a
\* timeout); it waits only when less than max wait had elapsed at the
\* response; the error reports the configured max wait, and the time
\* elapsed is at least that.
C3_TimeoutOnRunningAfterWait ==
    \A c \in Calls :
        LET call == calls[c]
        IN  IsPolling(call) =>
              /\ (call.pc = "done" /\ GotRunning(call) /\ call.cause # "network") =>
                    /\ call.cause = "timeout"
                    /\ call.outcome.kind = "error"
                    /\ call.elapsed >= MaxWaitMs(call)
                    /\ call.outcome.error.message[2] = call.arguments.maxWaitSeconds[1]
              /\ call.pc = "sleeping" =>
                    /\ GotRunning(call)
                    /\ call.elapsed - call.waited < MaxWaitMs(call)
              /\ call.cause = "timeout" =>
                    /\ GotRunning(call)
                    /\ call.elapsed >= MaxWaitMs(call)

\* C3 witness: a timeout raised later than max wait, after several checks.
C3_Witness ==
    \E c \in Calls :
        /\ IsPolling(calls[c])
        /\ calls[c].cause = "timeout"
        /\ calls[c].nreq >= 2
        /\ calls[c].arguments.maxWaitSeconds[1] > 0
        /\ calls[c].elapsed > MaxWaitMs(calls[c])

\* C4: once an invocation of the status tool has received a response with
\* status "completed" or "failed", it has ended and the request of that
\* response is its last.
C4_TerminalIsLast ==
    \A c \in Calls :
        LET call == calls[c]
        IN  (IsStatusCall(call) /\ call.terminalAt # 0) =>
              /\ call.pc = "done"
              /\ call.nreq = call.terminalAt
              /\ Payload(call).status \in TerminalStatuses

\* C4 witness: a polling invocation that ended on "failed" at its second
\* check.
C4_Witness ==
    \E c \in Calls :
        /\ IsPolling(calls[c])
        /\ calls[c].terminalAt = 2
        /\ calls[c].pc = "done"
        /\ calls[c].result.status = "failed"

\* C5: once a status request of an invocation got a non-success response,
\* the invocation has ended with an internal error that carries the HTTP
\* status code and the raw body, and the request of that response is its
\* last.
C5_HttpErrorAborts ==
    \A c \in Calls :
        LET call == calls[c]
        IN  (IsStatusCall(call) /\ call.failedAt # 0) =>
              /\ call.pc = "done"
              /\ call.nreq = call.failedAt
              /\ ~call.response.ok
              /\ call.outcome.kind = "error"
              /\ call.outcome.error.code = InternalError
              /\ call.outcome.error.message[2] = call.response.status
              /\ call.outcome.error.message[4] = call.response.text
              /\ call.outcome.error.message[4] \in {RateLimitedBody, JobBody("absent")}

\* C5 witness: HTTP 429 "rate limited" at the first check, and at a later
\* check of a polling invocation.
C5_Witness ==
    \E c \in Calls :
        /\ IsPolling(calls[c])
        /\ calls[c].failedAt = 2
        /\ calls[c].pc = "done"
        /\ calls[c].outcome.error.message[2] = 429
        /\ calls[c].outcome.error.message[4] = RateLimitedBody

ClaimedKinds == {"timeout", "http", "credential"}

\* C7 as stated: a timeout, a non-success HTTP response and a missing
\* credential give errors of three different kinds: two invocations that
\* failed for two different of these reasons got different error kinds.
C7_Original ==
    \A c \in Calls :
        LET call == calls[c]
        IN  (/\ call.pc = "done"
             /\ call.cause \in ClaimedKinds
             /\ previous.cause \in ClaimedKinds
             /\ previous.cause # call.cause) =>
              previous.code # call.outcome.error.code

\* The kind the code gives each reason of failure.
KindOf(cause) == IF cause = "credential" THEN InvalidRequest ELSE InternalError

\* C7 amended: the error for a missing credential has the kind
\* invalid-request, which neither a timeout nor a non-success HTTP response
\* gives; the errors for a timeout and for a non-success HTTP response both
\* have the kind internal error and differ in their message only.
C7_CredentialKindOnly ==
    /\ \A c \in Calls :
         LET call == calls[c]
         IN  (call.pc = "done" /\ call.cause \in ClaimedKinds) =>
               /\ call.outcome.kind = "error"
               /\ call.outcome.error.code = KindOf(call.cause)
               /\ call.cause = "timeout" =>
                    call.outcome.error.message[1] = "Generation polling timed out after "
               /\ call.cause = "http" =>
                    call.outcome.error.message[1] = "Gamma API error ("
    /\ previous.cause \in ClaimedKinds => previous.code = KindOf(previous.cause)

\* C7 witness: a timeout after a non-success HTTP response, both internal
\* errors.
C7_Witness ==
    /\ previous.cause = "http"
    /\ \E c \in Calls :
         /\ calls[c].cause = "timeout"
         /\ calls[c].outcome.error.code = previous.code

\* C8 as stated: the timeout error carries the time elapsed since the first
\* status request and the status of the last response.
C8_Original ==
    \A c \in Calls :
        LET call == calls[c]
        IN  call.cause = "timeout" =>
              /\ call.outcome.error.message[2] * MsPerSecond = call.elapsed
              /\ call.outcome.error.message[4] = Payload(call).status

\* C8 amended: the timeout error carries the configured max wait, not the
\* time measured, which is at least that, and the status of the last
\* response, which is not terminal.
C8_TimeoutCarriesMaxWait ==
    \A c \in Calls :
        LET call == calls[c]
        IN  call.cause = "timeout" =>
              /\ call.outcome.kind = "error"
              /\ call.outcome.error.message =
                   <<"Generation polling timed out after ",
                     call.arguments.maxWaitSeconds[1],
                     " seconds. Current status: ", Payload(call).status>>
              /\ Payload(call).status \in RunningStatuses
              /\ call.response.ok
              /\ call.elapsed >= call.outcome.error.message[2] * MsPerSecond

\* C8 witness: a timeout on status "running", 10 s or more after the first
\* request, reporting 7 seconds.
C8_Witness ==
    \E c \in Calls :
        /\ calls[c].cause = "timeout"
        /\ calls[c].outcome.error.message[2] = 7
        /\ calls[c].outcome.error.message[4] = "running"
        /\ calls[c].elapsed >= 2 * pollInterval

\* C9: an invocation of the status tool that leaves out the poll flag or
\* the max wait runs with the flag true and a max wait of 300 seconds, as
\* the one that sends them does: it waits after a running status received
\* before 300 s, and times out on a running status at 300 s or later.
C9_OmittedArgumentsPoll ==
    \A c \in Calls :
        LET call == calls[c]
        IN  IsStatusCall(call) =>
              /\ call.pollUntilComplete = TRUE
              /\ call.maxWaitSeconds = 300
              /\ call.pc = "sleeping" => call.elapsed - call.waited < 300000
              /\ (call.pc = "done" /\ GotRunning(call) /\ call.cause # "network") =>
                    /\ call.cause = "timeout"
                    /\ call.elapsed >= 300000
                    /\ call.outcome.error.message[2] = 300

\* C9 witness: an invocation with neither argument that checked 61 times,
\* every 5 s, and timed out at 300 s.
C9_Witness ==
    \E c \in Calls :
        /\ IsStatusCall(calls[c])
        /\ calls[c].arguments.pollUntilComplete = Undefined
        /\ calls[c].arguments.maxWaitSeconds = Undefined
        /\ calls[c].cause = "timeout"
        /\ calls[c].nreq = 61
        /\ calls[c].elapsed = 300000

\* C10: a submission with a credential has issued exactly one request, a
\* POST to /generations with the key and the arguments as its body; on a
\* success response its result is the payload of the response, on a
\* non-success response its error is an internal error with the HTTP
\* status code and the body.
C10_SubmissionOneRequest ==
    \A c \in Calls :
        LET call == calls[c]
        IN  (IsSubmission(call) /\ Configured) =>
              /\ call.nreq = 1
              /\ call.pc \in {"fetching", "done"}
              /\ call.request.method = "POST"
              /\ call.request.url = <<GAMMA_API_BASE, "/generations">>
              /\ call.request.key = GAMMA_API_KEY
              /\ call.request.body = Some(JSONstringify(call.arguments, 0))
              /\ (call.pc = "done" /\ call.response.ok) =>
                    /\ call.outcome.kind = "result"
                    /\ call.outcome.ret = Payload(call)
                    /\ call.outcome.ret.generationId = "gen_123"
              /\ (call.pc = "done" /\ call.failedAt # 0) =>
                    /\ call.outcome.kind = "error"
                    /\ call.outcome.error.code = InternalError
                    /\ call.outcome.error.message[2] = call.response.status
                    /\ call.outcome.error.message[4] = call.response.text

\* C10 witness: a submission with numCards that the service accepted.
C10_Witness ==
    \E c \in Calls :
        /\ IsSubmission(calls[c])
        /\ Configured
        /\ calls[c].arguments.numCards = Some(10)
        /\ calls[c].request.body # Undefined
        /\ calls[c].request.body[1].json.numCards = Some(10)
        /\ calls[c].pc = "done"
        /\ calls[c].outcome.kind = "result"
        /\ calls[c].outcome.ret.status = "pending"

\* A request of the invocation failed without a response.
Broken(call) == Started(call) /\ call.brokenAt # 0

\* C11 as the specification states it: when a request fails at the network
\* level the invocation ends at once, without a retry, and the client
\* receives the transport's error itself, not an error of another kind.
C11_Original ==
    \A c \in Calls :
        Broken(calls[c]) =>
            /\ calls[c].pc = "done"
            /\ calls[c].nreq = calls[c].brokenAt
            /\ calls[c].outcome.kind = "error"
            /\ calls[c].outcome.error = FetchFailed

\* C11: when a request fails at the network level the invocation ends at
\* once, without a retry: the failed request is its last.  The error that
\* leaves generateGamma or getGenerationStatus is the transport's error
\* itself, but the client receives an McpError of kind InternalError whose
\* message is the tool's failure prefix followed by the transport error's
\* message.
C11_NetworkFailureWrapped ==
    \A c \in Calls :
        Broken(calls[c]) =>
            /\ calls[c].pc = "done"
            /\ calls[c].cause = "network"
            /\ calls[c].nreq = calls[c].brokenAt
            /\ calls[c].outcome.kind = "error"
            /\ calls[c].outcome.thrown = FetchFailed
            /\ calls[c].outcome.error.class = "McpError"
            /\ calls[c].outcome.error.code = InternalError
            /\ calls[c].outcome.error.message =
                  <<IF calls[c].name = "generate_gamma"
                    THEN "Failed to generate gamma: "
                    ELSE "Failed to get generation status: ">>
                  \o FetchFailed.message

\* C11 witness: the second status request of a polling invocation failed at
\* the network level and the client got the wrapped error.
C11_Witness ==
    \E c \in Calls :
        /\ IsPolling(calls[c])
        /\ calls[c].brokenAt = 2
        /\ calls[c].pc = "done"
        /\ calls[c].outcome.kind = "error"
        /\ calls[c].outcome.error =
              McpError(InternalError,
                       <<"Failed to get generation status: ", "fetch failed">>)

\* The names of the tools the tool listing returns.
ListedNames ==
    {ListToolsHandler.tools[i].name : i \in DOMAIN ListToolsHandler.tools}

\* C12: the tool listing returns exactly two tools.  An invocation ends
\* with a method-not-found error if and only if its tool name is not one of
\* the two, and such an invocation issues no outbound request.
C12_MethodNotFoundIffUnlisted ==
    /\ Cardinality(ListedNames) = 2
    /\ Len(ListToolsHandler.tools) = 2
    /\ \A c \in Calls :
        LET call == calls[c]
        IN  Started(call) =>
              /\ call.name \notin ListedNames <=>
                    /\ call.pc = "done"
                    /\ call.outcome.kind = "error"
                    /\ call.outcome.error.class = "McpError"
                    /\ call.outcome.error.code = MethodNotFound
              /\ call.name \notin ListedNames =>
                    /\ call.nreq = 0
                    /\ call.request = NoRequest
                    /\ call.response = NoResponse
                    /\ call.outcome.error.message = <<"Unknown tool: ", call.name>>

\* C12 witness: a tool that is not listed was invoked, with a credential
\* configured, after an invocation of a listed tool had returned a payload.
C12_Witness ==
    \E c \in Calls :
        /\ Configured
        /\ calls[c].name = "delete_gamma"
        /\ calls[c].pc = "done"
        /\ calls[c].outcome.error.code = MethodNotFound
        /\ calls[c].nreq = 0
        /\ previous.cause = ""

\* The invocation's own program state: its record without the clocks, which
\* the passing of time advances, and without the history of the remote job.
Program(call) ==
    [call EXCEPT !.elapsed = 0, !.waited = 0, !.early = FALSE, !.steady = FALSE]

\* The invocation ended: the handler returned or threw.
Ended(call) == call.pc = "done"

\* The record of an invocation right after the handler ran up to its first
\* await, having started from nothing.
IsFresh(call) == call = CallToolHandler(InitCall, call.name, call.arguments)

\* What an ended invocation gave its client is one payload or one error.
C13_OneOutcome ==
    \A c \in Calls :
        LET call == calls[c]
        IN  /\ Ended(call) <=> call.outcome # NoOutcome
            /\ Ended(call) => call.outcome.kind \in {"result", "error"}
            /\ (Ended(call) /\ call.outcome.kind = "error") =>
                  /\ call.cause # ""
                  /\ call.outcome.error.class = "McpError"
            /\ (Ended(call) /\ call.outcome.kind = "result") =>
                  /\ call.cause = ""
                  /\ call.failedAt = 0
                  /\ call.brokenAt = 0
                  /\ call.response.ok
                  /\ call.outcome.ret = Payload(call)
            /\ (Ended(call) /\ IsPolling(call) /\ call.outcome.kind = "result") =>
                  call.outcome.ret.status \in TerminalStatuses

\* The outcome of an ended invocation stays: the only step that changes its
\* program state is the client's next invocation, which starts from nothing.
C13_OutcomeStays ==
    \A c \in Calls :
        (Ended(calls[c]) /\ Program(calls'[c]) # Program(calls[c])) =>
            IsFresh(calls'[c])

\* C13: every invocation ends with exactly one outcome, a returned payload
\* or a raised error; no invocation returns a payload after an error
\* occurred in it; a polling invocation never returns a payload whose status
\* is not terminal.
C13_ExactlyOneOutcome == []C13_OneOutcome /\ [][C13_OutcomeStays]_vars

\* C13 witness: a polling invocation returned a terminal payload at its
\* second request, after the client had got an error from the invocation
\* before.
C13_Witness ==
    \E c \in Calls :
        /\ IsPolling(calls[c])
        /\ Ended(calls[c])
        /\ calls[c].outcome.kind = "result"
        /\ calls[c].outcome.ret.status = "failed"
        /\ calls[c].nreq = 2
        /\ previous.cause = "timeout"

\* The outcome that the invocation's own arguments and the responses to its
\* own requests determine.
OwnOutcome(call) ==
    LET raised(thrown, error) ==
            [kind |-> "error", thrown |-> thrown, error |-> error]
    IN  IF call.name \notin ListedNames
        THEN raised(UnknownToolError(call.name), UnknownToolError(call.name))
        ELSE IF ~Configured
        THEN raised(MissingKeyError, MissingKeyError)
        ELSE IF call.brokenAt # 0
        THEN raised(FetchFailed,
                    McpError(InternalError,
                             <<FailurePrefix(call.name)>> \o FetchFailed.message))
        ELSE IF ~call.response.ok
        THEN raised(ApiError(call.response), ApiError(call.response))
        ELSE IF \/ call.name = "generate_gamma"
                \/ call.arguments.pollUntilComplete = Some(FALSE)
                \/ Payload(call).status \in TerminalStatuses
        THEN [kind |-> "result", ret |-> Payload(call),
              content |-> <<[type |-> "text",
                             text |-> JSONstringify(Payload(call), 2)]>>]
        ELSE raised(TimeoutError(call.arguments.maxWaitSeconds[1], Payload(call)),
                    TimeoutError(call.arguments.maxWaitSeconds[1], Payload(call)))

\* Outcome, request count and timeout decision of every invocation follow
\* from its own arguments, its own clock and its own responses.
C14_OwnStateOnly ==
    \A c \in Calls :
        LET call == calls[c]
            timers == IF call.pc = "sleeping" THEN call.nsleep - 1 ELSE call.nsleep
        IN  /\ Ended(call) => call.outcome = OwnOutcome(call)
            /\ (Ended(call) /\ call.cause = "timeout") =>
                  call.elapsed >= MaxWaitMs(call)
            /\ (IsStatusCall(call) /\ Configured) =>
                  /\ call.nreq = timers + 1
                  /\ call.elapsed >= call.waited + timers * pollInterval
            /\ (IsPolling(call) /\ call.pc = "sleeping") =>
                  call.elapsed - call.waited < MaxWaitMs(call)
            /\ (IsSubmission(call) /\ Configured) => call.nreq = 1

\* A step that changes the program state of one invocation leaves the
\* program state of every other invocation as it was, and its clock too.
C14_NoInterference ==
    \A c \in Calls : \A d \in Calls \ {c} :
        Program(calls'[c]) # Program(calls[c]) =>
            /\ Program(calls'[d]) = Program(calls[d])
            /\ calls'[d].elapsed = calls[d].elapsed
            /\ calls'[d].waited = calls[d].waited

\* C14: with invocations in progress at the same time, under any
\* interleaving of their steps, each invocation's outcome, request count and
\* timeout decision depend only on its own arguments, its own start time
\* and the responses to its own requests; no invocation reads or writes the
\* state of another.
C14_Independent == []C14_OwnStateOnly /\ [][C14_NoInterference]_vars

\* C14 witness: two polls overlapped; the one that started first timed out
\* while the other, started later, is still waiting for its timer.
C14_Witness ==
    \E c \in Calls : \E d \in Calls \ {c} :
        /\ IsPolling(calls[c])
        /\ IsPolling(calls[d])
        /\ Ended(calls[c])
        /\ calls[c].cause = "timeout"
        /\ calls[c].nreq = 3
        /\ calls[d].pc = "sleeping"
        /\ calls[d].nreq = 2
        /\ calls[d].elapsed < calls[c].elapsed

\* C15: the client is stateless across invocations.  A single check issues
\* one fresh status request and returns the payload of the response to that
\* request, whatever the invocation before it did; a single check that
\* follows a single check, the remote job not having changed in between,
\* returns the same payload.  Every invocation starts from nothing: at its
\* first request its clock is at zero and it holds no response, payload or
\* history of an earlier invocation.
C15_Stateless ==
    \A c \in Calls :
        LET call == calls[c]
        IN  /\ IsSingleCheck(call) =>
                  /\ call.nreq = 1
                  /\ call.request = StatusRequest(call.arguments.generationId)
                  /\ (Ended(call) /\ call.response.ok) =>
                        /\ call.outcome.kind = "result"
                        /\ call.outcome.ret = Payload(call)
                  /\ (Ended(call) /\ call.outcome.kind = "result"
                        /\ previous.steady) =>
                        call.outcome.ret = previous.ret
            /\ (IsStatusCall(call) /\ Configured
                  /\ call.pc = "fetching" /\ call.nreq = 1) =>
                  /\ call.elapsed = call.waited
                  /\ call.response = NoResponse
                  /\ call.result = NoResult
                  /\ call.outcome = NoOutcome
                  /\ call.terminalAt = 0
                  /\ call.failedAt = 0
                  /\ call.nsleep = 0
            /\ (Started(call) /\ call.nreq = 0) => Ended(call) /\ IsFresh(call)

\* C15 witness: two single checks in a row with the job running throughout;
\* the second issued its own request and returned the payload the first
\* had returned.
C15_Witness ==
    \E c \in Calls :
        /\ IsSingleCheck(calls[c])
        /\ Ended(calls[c])
        /\ previous.steady
        /\ previous.ret.status = "running"
        /\ calls[c].nreq = 1
        /\ calls[c].outcome.kind = "result"
        /\ calls[c].outcome.ret = previous.ret

\* C16: with no credential configured the server starts and answers the
\* tool listing without error: main ends with the server running whenever
\* the transport connects, and the listing returns the two tools.  The
\* missing credential is reported only to an invocation of a tool.
C16_StartsAndListsWithoutCredential ==
    ~Configured =>
        /\ server.transport = "connected" => server.state = "running"
        /\ server.state = "exit(1)" => server.transport = "failed"
        /\ tools # Undefined =>
              /\ server.state = "running"
              /\ tools = Some(ListToolsHandler)
              /\ ListedNames = {"generate_gamma", "get_gamma_generation"}
        /\ \A c \in Calls :
              (Started(calls[c]) /\ calls[c].name \in ListedNames) =>
                  /\ server.state = "running"
                  /\ Ended(calls[c])
                  /\ calls[c].cause = "credential"
                  /\ calls[c].outcome.kind = "error"
                  /\ calls[c].outcome.error.message =
                        <<"GAMMA_API_KEY environment variable is not set">>

\* C16 witness: without a credential the server is running, has listed its
\* tools, and an invocation of a tool got the missing credential error.
C16_Witness ==
    /\ GAMMA_API_KEY = Undefined
    /\ server.state = "running"
    /\ tools = Some(ListToolsHandler)
    /\ \E c \in Calls :
          /\ calls[c].name = "get_gamma_generation"
          /\ Ended(calls[c])
          /\ calls[c].cause = "credential"

\* The statuses the loop returns on: exactly "completed" and "failed".
ReturnedStatuses == {"completed", "failed"}

\* A polling invocation ended only on a returned status, on an error, or on
\* a timeout when maxWaitSeconds had elapsed; while it waits for its timer
\* its last response had another status and came before maxWaitSeconds.
C17_ContinuesBelowMaxWait ==
    \A c \in Calls :
        LET call == calls[c]
        IN  IsPolling(call) =>
              /\ (Ended(call) /\ call.cause = "timeout") =>
                    call.elapsed >= MaxWaitMs(call)
              /\ (Ended(call) /\ call.brokenAt = 0 /\ call.response.ok
                    /\ Payload(call).status \notin ReturnedStatuses) =>
                    /\ call.cause = "timeout"
                    /\ call.elapsed >= MaxWaitMs(call)
              /\ call.pc = "sleeping" =>
                    /\ call.response.ok
                    /\ Payload(call).status \notin ReturnedStatuses
                    /\ call.elapsed - call.waited < MaxWaitMs(call)
                    /\ call.outcome = NoOutcome

\* A response with another status before maxWaitSeconds suspends the loop,
\* and the loop leaves the suspension only by issuing the next request.
C17_WaitsThenRequests ==
    \A c \in Calls :
        /\ (/\ IsPolling(calls[c])
            /\ calls[c].pc = "fetching"
            /\ calls'[c].pc # "fetching"
            /\ calls'[c].brokenAt = 0
            /\ calls'[c].response.ok
            /\ Payload(calls'[c]).status \notin ReturnedStatuses
            /\ calls[c].elapsed < MaxWaitMs(calls[c])) =>
               /\ calls'[c].pc = "sleeping"
               /\ calls'[c].nreq = calls[c].nreq
               /\ calls'[c].outcome = NoOutcome
        /\ (/\ IsPolling(calls[c])
            /\ calls[c].pc = "sleeping"
            /\ calls'[c].pc # "sleeping") =>
               /\ calls'[c].pc = "fetching"
               /\ calls'[c].nreq = calls[c].nreq + 1
               /\ calls'[c].request = StatusRequest(calls[c].arguments.generationId)
               /\ calls'[c].outcome = NoOutcome

\* C17: in a polling invocation, a response whose status is anything but
\* exactly "completed" or "failed", a missing status included, received
\* while less than maxWaitSeconds have elapsed, makes the invocation neither
\* return nor raise: it waits and then issues another status request.  No
\* timeout is raised while less than maxWaitSeconds have elapsed.
C17_NonTerminalKeepsPolling ==
    []C17_ContinuesBelowMaxWait /\ [][C17_WaitsThenRequests]_vars

\* C17 witness: a response without a status came before maxWaitSeconds; the
\* invocation waited and has issued its next request.
C17_Witness ==
    \E c \in Calls :
        /\ IsPolling(calls[c])
        /\ calls[c].pc = "fetching"
        /\ calls[c].nreq = 2
        /\ calls[c].result.status = "undefined"
        /\ calls[c].elapsed < MaxWaitMs(calls[c])

\* The suspensions of a polling invocation: none before its first request,
\* one before each later request, each on a timer of 5 seconds.
C18_OneTimerPerRequest ==
    \A c \in Calls :
        LET call == calls[c]
        IN  IsPolling(call) =>
              /\ call.pc = "sleeping" => call.nsleep = call.nreq
              /\ call.pc # "sleeping" => call.nsleep = call.nreq - 1
              /\ (call.pc = "fetching" /\ call.nreq = 1) =>
                    /\ call.elapsed = call.waited
                    /\ call.delay = 0
              /\ call.nsleep > 0 =>
                    /\ call.delay = 5 * MsPerSecond
                    /\ call.delay = pollInterval

\* A suspension starts on a timer of 5 seconds and ends with the next
\* request, not before the 5 seconds have passed, and at 5 seconds when the
\* timer resolves on time.
C18_SuspensionStep ==
    \A c \in Calls :
        /\ (IsPolling(calls[c]) /\ calls[c].pc = "fetching"
              /\ calls'[c].pc = "sleeping") =>
               /\ calls'[c].delay = 5 * MsPerSecond
               /\ calls'[c].waited = 0
               /\ calls'[c].nsleep = calls[c].nsleep + 1
        /\ (IsPolling(calls[c]) /\ calls[c].pc = "sleeping"
              /\ calls'[c].pc # "sleeping") =>
               /\ calls[c].waited >= 5 * MsPerSecond
               /\ calls'[c].late = calls[c].waited - 5 * MsPerSecond
               /\ calls'[c].nreq = calls[c].nreq + 1
               /\ calls'[c].nsleep = calls[c].nsleep

PollTimedOut(call) == IsPolling(call) /\ Ended(call) /\ call.cause = "timeout"

\* The timeout is raised at a response with a status that is not returned.
TimeoutAtResponse(call) ==
    /\ call.response.ok
    /\ Payload(call).status \notin ReturnedStatuses
    /\ call.failedAt = 0
    /\ call.brokenAt = 0
    /\ call.terminalAt = 0

\* The timeout is raised by the step that receives a response, never by
\* the step that issues a request.
C19_CheckedAfterResponse ==
    \A c \in Calls :
        (calls'[c].cause = "timeout" /\ calls[c].cause # "timeout") =>
            /\ calls[c].pc = "fetching"
            /\ calls'[c].nreq = calls[c].nreq
            /\ calls'[c].elapsed = calls[c].elapsed

\* C19 as the specification states it: at a timeout the time elapsed since
\* the first request is less than maxWaitSeconds plus 5 seconds plus the
\* round-trip time of the last status request (the time waited for its
\* response).
C19_Original ==
    \A c \in Calls :
        (PollTimedOut(calls[c]) /\ MaxWaitMs(calls[c]) >= 0) =>
            /\ TimeoutAtResponse(calls[c])
            /\ calls[c].elapsed <
                  MaxWaitMs(calls[c]) + 5 * MsPerSecond + calls[c].waited

\* At a timeout the time elapsed since the first request is at least
\* maxWaitSeconds and less than maxWaitSeconds plus 5 seconds plus the time
\* by which the last timer resolved late plus the round-trip time of the
\* last status request.
C19_BoundWithLateness ==
    \A c \in Calls :
        (PollTimedOut(calls[c]) /\ MaxWaitMs(calls[c]) >= 0) =>
            /\ TimeoutAtResponse(calls[c])
            /\ calls[c].elapsed >= MaxWaitMs(calls[c])
            /\ calls[c].elapsed <
                  MaxWaitMs(calls[c]) + 5 * MsPerSecond
                      + calls[c].late + calls[c].waited
            /\ calls[c].nreq = 1 => calls[c].elapsed = calls[c].waited

\* C19: for a polling invocation with maxWaitSeconds >= 0 that ends in a
\* timeout, the time elapsed at the timeout is less than maxWaitSeconds
\* plus 5 seconds plus the lateness of the last timer plus the round-trip
\* time of the last status request; the elapsed time is checked only after
\* a response with a status that is not returned, never before a request.
C19_TimeoutOverrun == []C19_BoundWithLateness /\ [][C19_CheckedAfterResponse]_vars

\* C19 witness: a poll of 7 seconds timed out at its third request, after
\* a timer that resolved late: 12 seconds or more had elapsed when that
\* request was issued.
C19_Witness ==
    \E c \in Calls :
        /\ PollTimedOut(calls[c])
        /\ calls[c].arguments.maxWaitSeconds = Some(7)
        /\ calls[c].nreq = 3
        /\ calls[c].late > 0
        /\ calls[c].elapsed - calls[c].waited >= 12 * MsPerSecond

\* The state in which an invocation of the status tool ended.
EndState(call) ==
    IF call.outcome.kind = "result"
    THEN <<"Terminal", call.outcome.ret.status>>
    ELSE IF call.cause = "timeout"
    THEN <<"TimedOut">>
    ELSE <<"Failed", call.cause>>

\* An invocation of the status tool that asks to poll.
AsksToPoll(call) ==
    IsStatusCall(call) /\ call.arguments.pollUntilComplete = Some(TRUE)

\* A polling invocation ends in one of the four states, by a returned
\* status, by the timeout or by the error of a request or of the credential.
C20_EndStates ==
    \A c \in Calls :
        LET call == calls[c]
        IN  (AsksToPoll(call) /\ Ended(call)) =>
              /\ call.outcome.kind \in {"result", "error"}
              /\ EndState(call) \in
                    {<<"Terminal", "completed">>, <<"Terminal", "failed">>,
                     <<"TimedOut">>, <<"Failed", "http">>, <<"Failed", "network">>,
                     <<"Failed", "credential">>}
              /\ EndState(call)[1] = "Terminal" =>
                    /\ call.response.ok
                    /\ call.terminalAt = call.nreq
              /\ EndState(call)[1] = "TimedOut" =>
                    /\ call.outcome.kind = "error"
                    /\ call.terminalAt = 0
                    /\ call.elapsed >= MaxWaitMs(call)
              /\ EndState(call)[1] = "Failed" =>
                    /\ call.outcome.kind = "error"
                    /\ \/ call.failedAt = call.nreq
                       \/ call.brokenAt = call.nreq
                       \/ ~Configured /\ call.nreq = 0

\* An ended polling invocation takes no further step: it issues no request
\* and its outcome stays until the client's next invocation replaces it.
C20_NoStepAfterEnd ==
    \A c \in Calls :
        (AsksToPoll(calls[c]) /\ Ended(calls[c])) =>
            \/ /\ calls'[c].pc = "done"
               /\ calls'[c].nreq = calls[c].nreq
               /\ calls'[c].nsleep = calls[c].nsleep
               /\ calls'[c].outcome = calls[c].outcome
               /\ calls'[c].elapsed = calls[c].elapsed
            \/ /\ IsFresh(calls'[c])
               /\ previous' = Answered(calls[c])

\* A polling invocation in progress ends.
C20_Terminates ==
    \A c \in Calls :
        (AsksToPoll(calls[c]) /\ Active(calls[c])) ~> Ended(calls[c])

\* C20: when every request is eventually answered or fails and time
\* advances, every polling invocation with a finite maxWaitSeconds
\* eventually ends, in exactly one of the states Terminal(completed),
\* Terminal(failed), TimedOut or Failed; it ends only by a terminal status,
\* the timeout or the error of a request, and once ended it takes no
\* further step.
C20_PollEnds ==
    /\ []C20_EndStates
    /\ [][C20_NoStepAfterEnd]_vars
    /\ C20_Terminates

\* C20 witness: a poll of 15 seconds whose job never left "pending" ended
\* in TimedOut at its fourth request.
C20_Witness ==
    \E c \in Calls :
        /\ AsksToPoll(calls[c])
        /\ calls[c].arguments.maxWaitSeconds = Some(MaxWaitArg)
        /\ Ended(calls[c])
        /\ EndState(calls[c]) = <<"TimedOut">>
        /\ calls[c].nreq = 4
        /\ calls[c].result.status = "pending"

\* C21: in a polling invocation the test of the status comes before the
\* test of the elapsed time.  A response with status "completed" or
\* "failed" is returned as the result, also when maxWaitSeconds or more had
\* elapsed at that response; the timeout is raised only at a response with
\* another status.
C21_TerminalBeforeTimeout ==
    \A c \in Calls :
        LET call == calls[c]
        IN  IsPolling(call) =>
              /\ (call.brokenAt = 0 /\ call.response.ok
                    /\ Payload(call).status \in {"completed", "failed"}) =>
                    /\ Ended(call)
                    /\ call.outcome.kind = "result"
                    /\ call.outcome.ret = Payload(call)
                    /\ call.cause = ""
              /\ (Ended(call) /\ call.cause = "timeout") =>
                    /\ call.response.ok
                    /\ Payload(call).status \notin {"completed", "failed"}
                    /\ call.terminalAt = 0
              /\ ~Ended(call) => call.terminalAt = 0

\* C21 witness: a poll of 7 seconds returned the "completed" payload of its
\* third response, received when 10 seconds or more had elapsed.
C21_Witness ==
    \E c \in Calls :
        /\ IsPolling(calls[c])
        /\ calls[c].arguments.maxWaitSeconds = Some(7)
        /\ Ended(calls[c])
        /\ calls[c].nreq = 3
        /\ calls[c].elapsed >= MaxWaitMs(calls[c])
        /\ calls[c].outcome.kind = "result"
        /\ calls[c].outcome.ret.status = "completed"

\* The least integer that is not below a / b, for b > 0.
Ceiling(a, b) == (a + b - 1) \div b

\* The most status requests of a poll of w >= 0 seconds: ceil(w / 5) + 1.
MostRequests(w) == Ceiling(w * MsPerSecond, 5 * MsPerSecond) + 1

\* The requests of a polling invocation: at least one, at most
\* ceil(W / 5) + 1 for maxWaitSeconds W >= 0, exactly one for W <= 0.
C22_RequestCount ==
    \A c \in Calls :
        LET call == calls[c]
            W == call.arguments.maxWaitSeconds[1]
        IN  IsPolling(call) =>
              /\ call.nreq >= 1
              /\ W >= 0 => call.nreq <= MostRequests(W)
              /\ W <= 0 => call.nreq = 1 /\ call.pc # "sleeping"

\* C22 as the specification states it: with the request count as above, a
\* poll with maxWaitSeconds <= 0 ends with either the terminal payload or a
\* timeout.
C22_Original ==
    /\ C22_RequestCount
    /\ \A c \in Calls :
          (IsPolling(calls[c]) /\ Ended(calls[c])
             /\ calls[c].arguments.maxWaitSeconds[1] <= 0) =>
              \/ /\ calls[c].outcome.kind = "result"
                 /\ calls[c].outcome.ret.status \in TerminalStatuses
              \/ calls[c].cause = "timeout"

\* C22: with a credential, a polling invocation issues at least one status
\* request and, for maxWaitSeconds W >= 0, at most ceil(W / 5) + 1; when
\* W <= 0 it issues exactly one request and ends at the answer to it: with
\* the terminal payload, with the timeout, or with the error of that
\* request (a response that is not a success, or no response).
C22_RequestBound ==
    /\ C22_RequestCount
    /\ \A c \in Calls :
          LET call == calls[c]
          IN  (IsPolling(call) /\ Ended(call)
                 /\ call.arguments.maxWaitSeconds[1] <= 0) =>
                  \/ /\ call.outcome.kind = "result"
                     /\ call.outcome.ret.status \in TerminalStatuses
                     /\ call.terminalAt = 1
                  \/ /\ call.cause = "timeout"
                     /\ call.response.ok
                     /\ Payload(call).status \notin TerminalStatuses
                  \/ call.cause = "http" /\ call.failedAt = 1
                  \/ call.cause = "network" /\ call.brokenAt = 1

\* C22 witness: a poll of 7 seconds timed out at its third request, the
\* most that ceil(7 / 5) + 1 allows.
C22_Witness ==
    \E c \in Calls :
        /\ IsPolling(calls[c])
        /\ calls[c].arguments.maxWaitSeconds = Some(7)
        /\ calls[c].nreq = 3
        /\ calls[c].nreq = MostRequests(7)
        /\ Ended(calls[c])
        /\ calls[c].cause = "timeout"

\* C23: the handler tests the tool name before any credential check is
\* reached: with no credential configured, an invocation that names an
\* unknown tool ends with method-not-found, not with invalid-request, while
\* an invocation of either tool ends with invalid-request.
C23_DispatchBeforeCredential ==
    \A c \in Calls :
        LET call == calls[c]
        IN  (Started(call) /\ ~Configured) =>
              /\ Ended(call)
              /\ call.outcome.kind = "error"
              /\ call.nreq = 0
              /\ call.name \notin {"generate_gamma", "get_gamma_generation"} =>
                    /\ call.cause = "unknown tool"
                    /\ call.outcome.error.code = MethodNotFound
                    /\ call.outcome.error.code # InvalidRequest
                    /\ call.outcome.error.message = <<"Unknown tool: ", call.name>>
              /\ call.name \in {"generate_gamma", "get_gamma_generation"} =>
                    /\ call.cause = "credential"
                    /\ call.outcome.error.code = InvalidRequest

\* C23 witness: with GAMMA_API_KEY set to the empty string, an unknown tool
\* was invoked after an invocation that had got the credential error, and
\* got method-not-found.
C23_Witness ==
    \E c \in Calls :
        /\ GAMMA_API_KEY = Some("")
        /\ calls[c].name = "delete_gamma"
        /\ Ended(calls[c])
        /\ calls[c].outcome.kind = "error"
        /\ calls[c].outcome.error.code = MethodNotFound
        /\ previous.cause = "credential"
        /\ previous.code = InvalidRequest

\* C24: the handler passes on a protocol error raised by generateGamma or
\* getGenerationStatus as it was raised: the missing credential reaches the
\* client as invalid-request, a non-success response and the timeout as the
\* internal error raised, with the same message and without a second
\* wrapping.  Only an error that is not a protocol error is converted, into
\* an internal error with the tool's failure prefix.
C24_ErrorKindPreserved ==
    \A c \in Calls :
        LET call == calls[c]
            thrown == call.outcome.thrown
            error == call.outcome.error
        IN  (Ended(call) /\ call.outcome.kind = "error") =>
              /\ error.class = "McpError"
              /\ thrown.class = "McpError" => error = thrown
              /\ call.cause = "credential" =>
                    /\ error.code = InvalidRequest
                    /\ error.message =
                          <<"GAMMA_API_KEY environment variable is not set">>
              /\ call.cause = "http" =>
                    /\ error.code = InternalError
                    /\ error.message =
                          <<"Gamma API error (", call.response.status, "): ",
                            call.response.text>>
              /\ call.cause = "timeout" =>
                    /\ error.code = InternalError
                    /\ error.message =
                          <<"Generation polling timed out after ",
                            call.maxWaitSeconds,
                            " seconds. Current status: ", call.result.status>>
              /\ thrown.class # "McpError" =>
                    /\ call.cause = "network"
                    /\ error.code = InternalError
                    /\ error.message =
                          <<IF call.name = "generate_gamma"
                            THEN "Failed to generate gamma: "
                            ELSE "Failed to get generation status: ">>
                          \o thrown.message

\* C24 witness: the client got the API error of a submission as it was
\* raised, after it had got the converted error of a failed request.
C24_Witness ==
    \E c \in Calls :
        /\ IsSubmission(calls[c])
        /\ Ended(calls[c])
        /\ calls[c].cause = "http"
        /\ calls[c].outcome.error = calls[c].outcome.thrown
        /\ calls[c].outcome.error.message[1] = "Gamma API error ("
        /\ previous.cause = "network"
        /\ previous.code = InternalError

\* What C25 requires of a server.json for the validator to report success.
Present(v) == v.js \notin {"undefined", "null"} /\ v # Str(<<>>)
NoSlash(s) == \A i \in 1..Len(s) : s[i] # "/"
\* io.github.<user>/<server> or com.<domain>/<server>
NamespaceFormat(s) ==
    \E prefix \in {IoGithubDot, ComDot} :
        \E k \in (Len(prefix) + 2)..(Len(s) - 1) :
            /\ SubSeq(s, 1, Len(prefix)) = prefix
            /\ s[k] = "/"
            /\ NoSlash(SubSeq(s, Len(prefix) + 1, k - 1))
            /\ NoSlash(SubSeq(s, k + 1, Len(s)))
Described(pkg) ==
    /\ pkg.js = "object"
    /\ Present(pkg.registryType)
    /\ Present(pkg.identifier)
    /\ Present(pkg.version)
    /\ pkg.transport.js = "object"
    /\ Present(pkg.transport.type)
WellFormed(file) ==
    /\ file.kind = "json"
    /\ file.value.js = "object"
    /\ \A f \in {"schema", "name", "title", "description", "version"} :
          Present(file.value[f])
    /\ file.value.packages.js = "array"
    /\ file.value.packages.items # <<>>
    /\ \A i \in 1..Len(file.value.packages.items) :
          Described(file.value.packages.items[i])
    /\ file.value.name.js = "string"
    /\ NamespaceFormat(file.value.name.chars)
Printed(line) == \E i \in 1..Len(validation.stdout) : validation.stdout[i] = line

\* C25: the validator, in either version, exits without error or prints
\* its success message only if server.json can be read and parsed, holds
\* a non-empty $schema, name, title, description and version, holds a
\* non-empty array of packages that each have registryType, identifier,
\* version and transport.type, and has a name of the form
\* io.github.<user>/<server> or com.<domain>/<server>; otherwise it exits
\* with status 1 and prints neither line of the success message.
C25_ValidatorSuccess ==
    validation.pc = "exited" =>
        /\ validation.code \in {0, 1}
        /\ (validation.code = 0 \/ Printed(StructureValid)
              \/ Printed(ReadyToPublish)) => WellFormed(serverJson)
        /\ ~WellFormed(serverJson) =>
              /\ validation.code = 1
              /\ ~Printed(StructureValid)
              /\ ~Printed(ReadyToPublish)
              /\ validation.stderr # <<>>

\* C25 witness: the script reported success for a file that holds a
\* homepage and two packages, the first with a required environment
\* variable.
C25_Witness ==
    /\ validation.pc = "exited"
    /\ validation.version = "current"
    /\ validation.code = 0
    /\ Printed(StructureValid)
    /\ Printed(RequiredEnvVars)
    /\ WellFormed(serverJson)
    /\ ~Falsy(serverJson.value.homepage)
    /\ Len(serverJson.value.packages.items) = 2

====
